---------------------------- MODULE Spec2Model ----------------------------
(***************************************************************************)
(* A model of pyfacturx: the Factur-X invoice data model with its          *)
(* construction-time validation (model.py, money.py, countries.py), the    *)
(* XML parser (parse.py) and the XML generator (generate.py).              *)
(*                                                                         *)
(* Conventions.                                                            *)
(*   - A Python Optional value is a sequence: <<>> is None, <<v>> is v.    *)
(*   - A Python list or tuple of objects is a sequence.                    *)
(*   - A dataclass instance is a record with one field per dataclass       *)
(*     field; an invoice also carries "cls", the name of type(self).       *)
(*   - Strings that the code inspects character by character (currency    *)
(*     and country codes, decimal literals) are sequences of one-character *)
(*     strings; other strings are opaque TLA+ strings.                     *)
(*   - Dates are integers YYYYMMDD (ordered like datetime.date).           *)
(*   - A call returns an outcome record: exc = "" and val = <<value>> on   *)
(*     return, exc = the exception class name when the call raises.        *)
(***************************************************************************)
EXTENDS Integers, Sequences, FiniteSets, TLC

VARIABLES
    pc,       \* what the application did last
    args,     \* the keyword arguments assembled for an invoice class
    doc,      \* the XML document handed to parse_xml, <<>> when none
    edits,    \* how many argument or element changes were made to the sample
    result    \* the outcome of the last library call

vars == <<pc, args, doc, edits, result>>

(***************************************************************************)
(* Bounds of the exploration.                                              *)
(***************************************************************************)
MaxArgEdits == 2
MaxDocEdits == 2
MaxCodeLen == 4
MaxIds == 2
MaxPartyFields == 4
MaxFiles == 2

(***************************************************************************)
(* Outcomes of calls.                                                      *)
(***************************************************************************)
None == <<>>

Some(v) == <<v>>

Return(v) == [exc |-> "", msg |-> "", profile_name |-> "", val |-> <<v>>]

Raise(e, m) == [exc |-> e, msg |-> m, profile_name |-> "", val |-> <<>>]

ModelError(m) == Raise("ModelError", m)

InvalidXMLError(m) == Raise("InvalidXMLError", m)

InvalidProfileError(name, m) ==
    [exc |-> "InvalidProfileError", msg |-> m, profile_name |-> name, val |-> <<>>]

NoExc == Return(TRUE)

IsErr(r) == r.exc # ""

IsOk(r) == r.exc = ""

\* The first raising outcome of a sequence of outcomes evaluated in order,
\* NoExc when none raises.
FirstErr(rs) ==
    LET outs == rs
    IN  IF \E i \in 1..Len(outs) : IsErr(outs[i])
        THEN outs[CHOOSE i \in 1..Len(outs) :
                    IsErr(outs[i]) /\ \A j \in 1..(i - 1) : IsOk(outs[j])]
        ELSE NoExc

\* A chain of "if cond: raise ModelError(msg)" statements that went through
\* all of them and raised for the last true condition.
LastRaise(rules) ==
    IF \E i \in 1..Len(rules) : rules[i][1]
    THEN ModelError(rules[CHOOSE i \in 1..Len(rules) :
                rules[i][1] /\ \A j \in (i + 1)..Len(rules) : ~rules[j][1]][2])
    ELSE NoExc

\* A chain of "if cond: raise ModelError(msg)" statements: rules is a
\* sequence of <<cond, msg>>; the first true condition raises.
FirstRaise(rules) ==
    IF \E i \in 1..Len(rules) : rules[i][1]
    THEN ModelError(rules[CHOOSE i \in 1..Len(rules) :
                rules[i][1] /\ \A j \in 1..(i - 1) : ~rules[j][1]][2])
    ELSE NoExc

\* exc.py: the exception classes below FacturXParseError.
FacturXParseErrors ==
    {"XMLParseError", "NotFacturXError", "UnsupportedProfileError",
     "InvalidXMLError", "InvalidProfileError"}

(***************************************************************************)
(* const.py: the profile URNs.                                             *)
(***************************************************************************)
URN_MINIMUM_PROFILE == "urn:factur-x.eu:1p0:minimum"
URN_BASIC_WL_PROFILE == "urn:factur-x.eu:1p0:basicwl"
URN_BASIC_PROFILE == "urn:cen.eu:en16931:2017#compliant#urn:factur-x.eu:1p0:basic"
URN_EN16931_PROFILE == "urn:cen.eu:en16931:2017"
URN_EXTENDED_PROFILE == "urn:cen.eu:en16931:2017#conformant#urn:factur-x.eu:1p0:extended"
URN_XRECHNUNG_PROFILE ==
    "urn:cen.eu:en16931:2017#compliant#urn:xoev-de:kosit:standard:xrechnung_2.1"

(***************************************************************************)
(* model.py: the four invoice classes, a chain of subclasses.              *)
(***************************************************************************)
InvoiceClasses ==
    {"MinimumInvoice", "BasicWLInvoice", "BasicInvoice", "EN16931Invoice"}

\* The depth of a class below MinimumInvoice in the inheritance chain.
ClassDepth(c) ==
    CASE c = "MinimumInvoice" -> 0
      [] c = "BasicWLInvoice" -> 1
      [] c = "BasicInvoice" -> 2
      [] c = "EN16931Invoice" -> 3

issubclass(c, base) == ClassDepth(c) >= ClassDepth(base)

PROFILE_NAME(c) ==
    CASE c = "MinimumInvoice" -> "MINIMUM"
      [] c = "BasicWLInvoice" -> "BASIC WL"
      [] c = "BasicInvoice" -> "BASIC"
      [] c = "EN16931Invoice" -> "EN 16931/COMFORT"

PROFILE_URN(c) ==
    CASE c = "MinimumInvoice" -> URN_MINIMUM_PROFILE
      [] c = "BasicWLInvoice" -> URN_BASIC_WL_PROFILE
      [] c = "BasicInvoice" -> URN_BASIC_PROFILE
      [] c = "EN16931Invoice" -> URN_EN16931_PROFILE

(***************************************************************************)
(* type_codes.py: the code lists the model and the parser consult.         *)
(***************************************************************************)
DocumentTypeCode == {50, 130, 325, 326, 380, 381, 384, 386, 916}

is_invoice_type(code) == code \in {325, 326, 380, 381, 384, 386}

is_supporting_document_type(code) == code \in {50, 130, 916}

IdentifierSchemeCode == {"0088", "0160"}

PaymentTimeCode == {5, 29, 72}

TextSubjectCode == {"AAI", "SUR", "REG", "ABL", "TXD", "CUS", "AFM"}

PaymentMeansCode ==
    {"1", "10", "20", "30", "42", "48", "49", "57", "58", "59", "97", "ZZZ"}

AllowanceChargeCode == {41}

TaxCategoryCode == {"AE", "E", "G", "K", "L", "M", "O", "S", "Z"}

SpecialServiceCode == {"MC"}

VATExemptionCode == {}

QuantityCode == {"C62", "H87", "HUR", "DAY", "LTR", "MTQ", "KGM", "MTR", "TNE"}

(***************************************************************************)
(* Character-level strings: regular expressions and decimal literals.      *)
(***************************************************************************)
UpperLetters ==
    {"A", "B", "C", "D", "E", "F", "G", "H", "I", "J", "K", "L", "M",
     "N", "O", "P", "Q", "R", "S", "T", "U", "V", "W", "X", "Y", "Z"}

\* re.match(r"^[A-Z]{n}$", s): n capital letters from the start, then "$",
\* which in Python matches at the end of the string and also just before a
\* newline that is the last character of the string.
MatchUpperN(s, n) ==
    /\ Len(s) >= n
    /\ \A i \in 1..n : s[i] \in UpperLetters
    /\ \/ Len(s) = n
       \/ Len(s) = n + 1 /\ s[n + 1] = "\n"

DigitValue(c) ==
    CASE c = "0" -> 0 [] c = "1" -> 1 [] c = "2" -> 2 [] c = "3" -> 3
      [] c = "4" -> 4 [] c = "5" -> 5 [] c = "6" -> 6 [] c = "7" -> 7
      [] c = "8" -> 8 [] c = "9" -> 9

Digits == {"0", "1", "2", "3", "4", "5", "6", "7", "8", "9"}

RECURSIVE DigitsValue(_)
DigitsValue(s) ==
    IF s = <<>> THEN 0
    ELSE 10 * DigitsValue(SubSeq(s, 1, Len(s) - 1)) + DigitValue(s[Len(s)])

\* The positions of "." in s.
DotPositions(s) == {i \in 1..Len(s) : s[i] = "."}

WithoutDot(s) == SelectSeq(s, LAMBDA c : c # ".")

\* A Decimal is [coeff, exp]: the value coeff * 10^exp, exp being what
\* as_tuple().exponent reports (the negated number of decimal places when
\* it is negative). The quiet NaN has the exponent "n" and no digits.
NaN == [coeff |-> 0, exp |-> 0, nan |-> TRUE]

is_nan(d) == "nan" \in DOMAIN d

\* The plain literals: digits with at most one point and at least one digit.
PlainDecimal(text) ==
    LET dots == DotPositions(text)
        ds == WithoutDot(text)
    IN  IF /\ Cardinality(dots) <= 1
           /\ Len(ds) >= 1
           /\ \A i \in 1..Len(ds) : ds[i] \in Digits
        THEN Some([coeff |-> DigitsValue(ds),
                   exp |-> IF dots = {} THEN 0
                           ELSE 0 - (Len(text) - (CHOOSE i \in dots : TRUE))])
        ELSE None

\* The positions of "E" in s.
EPositions(s) == {i \in 1..Len(s) : s[i] = "E"}

\* An integer without sign, None when s is no such text.
Unsigned(s) ==
    IF s # <<>> /\ \A i \in 1..Len(s) : s[i] \in Digits
    THEN Some(DigitsValue(s))
    ELSE None

Negated(n) == IF n = None THEN None ELSE Some(0 - n[1])

\* An integer with or without sign.
SignedInteger(s) ==
    IF s = <<>> THEN None
    ELSE IF s[1] = "-" THEN Negated(Unsigned(Tail(s)))
    ELSE IF s[1] = "+" THEN Unsigned(Tail(s))
    ELSE Unsigned(s)

\* The part of a literal before its first "E", all of it when it has none.
Mantissa(text) ==
    IF EPositions(text) = {} THEN text
    ELSE SubSeq(text, 1,
                (CHOOSE i \in EPositions(text) :
                    \A j \in EPositions(text) : i <= j) - 1)

\* The exponent after the first "E" of a literal, 0 when it has none.
Exponent(text) ==
    IF EPositions(text) = {} THEN Some(0)
    ELSE SignedInteger(SubSeq(text, Len(Mantissa(text)) + 2, Len(text)))

\* The Decimal of mantissa m with its exponent raised by e.
Scaled(m, e) ==
    IF m = None \/ e = None THEN None
    ELSE Some([coeff |-> m[1].coeff, exp |-> m[1].exp + e[1]])

\* decimal.Decimal(text) for "NaN", the plain literals and the plain
\* literals followed by "E" and an exponent with or without sign. <<>>
\* stands for decimal.InvalidOperation, which Decimal raises for any other
\* text of the alphabet used here.
Decimal(text) ==
    IF text = <<"N", "a", "N">> THEN Some(NaN)
    ELSE Scaled(PlainDecimal(Mantissa(text)), Exponent(text))

RECURSIVE Pow10(_)
Pow10(n) == IF n = 0 THEN 1 ELSE 10 * Pow10(n - 1)

\* Decimal.__eq__: the values are compared; NaN equals nothing.
Decimal__eq__(a, b) ==
    /\ ~is_nan(a)
    /\ ~is_nan(b)
    /\ LET low == IF a.exp < b.exp THEN a.exp ELSE b.exp
       IN  a.coeff * Pow10(a.exp - low) = b.coeff * Pow10(b.exp - low)

(***************************************************************************)
(* money.py and countries.py.                                              *)
(***************************************************************************)
validate_iso_4217_currency(currency) ==
    IF MatchUpperN(currency, 3)
    THEN NoExc
    ELSE Raise("ValueError", "Invalid ISO 4217 currency code")

validate_iso_3166_1_alpha_2(code) == MatchUpperN(code, 2)

\* Money.__init__(amount: str, currency): the currency is validated first,
\* then the amount text is converted.
Money(amount, currency) ==
    LET v == validate_iso_4217_currency(currency)
        d == Decimal(amount)
    IN  IF IsErr(v) THEN v
        ELSE IF d = None
        THEN Raise("InvalidOperation", "decimal.InvalidOperation")
        ELSE Return([amount |-> d[1], currency |-> currency])

\* Money.__init__(amount: Decimal, currency): the Decimal is stored as it is.
Money_of_Decimal(amount, currency) ==
    LET v == validate_iso_4217_currency(currency)
    IN  IF IsErr(v) THEN v
        ELSE Return([amount |-> amount, currency |-> currency])

\* (self.amount, self.currency) != (value.amount, value.currency): tuples
\* are compared item by item, and two items that are the same object count
\* as equal without __eq__ being asked. same tells that both Money hold one
\* and the same Decimal object.
amount_currency_ne(self, value, same) ==
    \/ ~same /\ ~Decimal__eq__(self.amount, value.amount)
    \/ self.currency # value.currency

\* as_tuple().exponent of both amounts differs: "n" for NaN, else a number.
exponent_ne(a, b) ==
    IF is_nan(a) \/ is_nan(b) THEN is_nan(a) # is_nan(b) ELSE a.exp # b.exp

\* Money.__eq__ for a value that is a Money.
Money__eq__(self, value, same) ==
    IF amount_currency_ne(self, value, same) THEN FALSE
    ELSE IF exponent_ne(self.amount, value.amount) THEN FALSE
    ELSE TRUE

\* The applicable map over a list: the outcomes of f on the elements of s.
Each(s, f(_)) == [i \in 1..Len(s) |-> f(s[i])]

(***************************************************************************)
(* model.py: the parties.                                                  *)
(***************************************************************************)
\* PostalAddress(country_code, ...): the dataclass fields.
PostalAddressFields(country_code) ==
    [country_code |-> country_code, country_subdivision |-> None,
     post_code |-> None, city |-> None, line_one |-> None,
     line_two |-> None, line_three |-> None]

PostalAddress__post_init__(self) ==
    IF ~validate_iso_3166_1_alpha_2(self.country_code)
    THEN ModelError("Invalid ISO 3166-1 alpha-2 country code.")
    ELSE NoExc

\* The constructor call PostalAddress(...): the generated __init__ stores the
\* fields, then runs __post_init__.
PostalAddress(self) ==
    IF IsErr(PostalAddress__post_init__(self))
    THEN PostalAddress__post_init__(self)
    ELSE Return(self)

PostalAddress_validate(self, profile) ==
    IF /\ ~issubclass(profile, "BasicWLInvoice")
       /\ \/ self.country_subdivision # None
          \/ self.post_code # None
          \/ self.city # None
          \/ self.line_one # None
          \/ self.line_two # None
          \/ self.line_three # None
    THEN ModelError("Address fields are not allowed in the profile.")
    ELSE NoExc

\* TradeParty(name, address): the dataclass fields with their defaults.
TradeParty(name, address) ==
    [name |-> name, address |-> address, email |-> None,
     tax_number |-> None, vat_id |-> None, ids |-> <<>>,
     global_ids |-> <<>>, description |-> None, legal_id |-> None,
     trading_business_name |-> None, contacts |-> <<>>]

Roles == {"seller", "buyer", "seller tax representative", "ship to", "payee"}

\* The section "ids and global_ids" of TradeParty.validate after the test of
\* the scheme IDs, without any cap: only the rules that allow no ID at all.
TradeParty_validate_ids_uncapped(self, profile, which) ==
    LET wl == issubclass(profile, "BasicWLInvoice")
        bsp == {"buyer", "ship to", "payee"}
    IN  <<<<which \in bsp /\ ~wl /\ Len(self.ids) > 0,
            "IDs are not allowed">>,
          <<which \in bsp /\ ~wl /\ Len(self.global_ids) > 0,
            "global IDs are not allowed">>,
          <<which = "seller" /\ ~wl /\ Len(self.ids) > 0,
            "IDs are not allowed">>,
          <<which = "seller" /\ ~wl /\ Len(self.global_ids) > 0,
            "global IDs are not allowed">>,
          <<which = "seller tax representative" /\ Len(self.ids) > 0,
            "IDs are not allowed">>,
          <<which = "seller tax representative" /\ Len(self.global_ids) > 0,
            "global IDs are not allowed">>>>

\* The section "ids and global_ids" of TradeParty.validate after the test of
\* the scheme IDs: its "if ...: raise ModelError" statements as <<cond, msg>>.
TradeParty_validate_ids(self, profile, which) ==
    LET wl == issubclass(profile, "BasicWLInvoice")
        bsp == {"buyer", "ship to", "payee"}
    IN  <<<<which \in bsp /\ wl /\ Len(self.ids) > 1,
            "Multiple IDs are not allowed">>,
          <<which \in bsp /\ wl /\ Len(self.global_ids) > 1,
            "Multiple global IDs are not allowed">>,
          <<which \in bsp /\ ~wl /\ Len(self.ids) > 0,
            "IDs are not allowed">>,
          <<which \in bsp /\ ~wl /\ Len(self.global_ids) > 0,
            "global IDs are not allowed">>,
          <<which = "seller" /\ ~wl /\ Len(self.ids) > 0,
            "IDs are not allowed">>,
          <<which = "seller" /\ ~wl /\ Len(self.global_ids) > 0,
            "global IDs are not allowed">>,
          <<which = "seller tax representative" /\ Len(self.ids) > 0,
            "IDs are not allowed">>,
          <<which = "seller tax representative" /\ Len(self.global_ids) > 0,
            "global IDs are not allowed">>>>

\* The section "address" of TradeParty.validate before the call of
\* address.validate, an address being required of nobody.
TradeParty_validate_address_optional(self, profile, which) ==
    <<<<which = "payee" /\ self.address # None, "address is not allowed">>>>

\* The section "address" of TradeParty.validate before the call of
\* address.validate.
TradeParty_validate_address(self, profile, which) ==
    LET wl == issubclass(profile, "BasicWLInvoice")
    IN  <<<<which = "payee" /\ self.address # None,
            "address is not allowed">>,
          <<which # "payee"
              /\ (which \in {"seller", "seller tax representative"}
                  \/ (which = "buyer" /\ wl))
              /\ self.address = None,
            "address is required">>>>

\* TradeParty.validate(profile, which=...): the statements in their order,
\* each "if ...: raise ModelError" with the conditions of the branches that
\* enclose it.
TradeParty_validate(self, profile, which) ==
    LET wl == issubclass(profile, "BasicWLInvoice")
        en == issubclass(profile, "EN16931Invoice")
        others == {"seller tax representative", "ship to", "payee"}
    IN  FirstErr(<<
          FirstRaise(
            <<<<which \in others /\ ~wl, "party is not allowed in the profile">>,
              <<\E i \in 1..Len(self.global_ids) : self.global_ids[i][2] = None,
                "Global ID scheme ID is required.">>>>
            \o TradeParty_validate_ids(self, profile, which)
            \o <<<<which # "ship to" /\ self.name = None, "name is required.">>,
                 <<(which # "seller" \/ ~en) /\ self.description # None,
                   "description is not allowed.">>,
                 <<which \in {"seller tax representative", "ship to"}
                     /\ self.legal_id # None,
                   "legal ID is not allowed">>,
                 <<which = "buyer" /\ ~en
                     /\ self.trading_business_name # None,
                   "trading business name is not allowed">>,
                 <<which = "seller" /\ ~wl /\ self.trading_business_name # None,
                   "trading business name is not allowed">>,
                 <<which \notin {"buyer", "seller"}
                     /\ self.trading_business_name # None,
                   "trading business name is not allowed">>,
                 <<(which \notin {"buyer", "seller"} \/ ~en)
                     /\ Len(self.contacts) > 0,
                   "contacts are not allowed">>>>
            \o TradeParty_validate_address(self, profile, which)),
          IF self.address # None
          THEN PostalAddress_validate(self.address[1], profile)
          ELSE NoExc,
          FirstRaise(<<
            <<~wl /\ self.email # None, "email is not allowed">>,
            <<((which = "buyer" /\ ~wl) \/ which \in others)
                /\ self.tax_number # None,
              "tax number is not allowed">>,
            <<which = "seller tax representative" /\ self.vat_id = None,
              "VAT ID is required">>,
            <<which # "seller tax representative"
                /\ ((which = "buyer" /\ ~wl) \/ which \in {"ship to", "payee"})
                /\ self.vat_id # None,
              "VAT ID is not allowed">>
          >>)
        >>)

(***************************************************************************)
(* model.py: taxes, payment data, allowances and charges, line items.      *)
(***************************************************************************)
\* Tax(calculated_amount, basis_amount, rate_percent, category_code).
TaxFields(calculated_amount, basis_amount, rate_percent) ==
    [calculated_amount |-> calculated_amount, basis_amount |-> basis_amount,
     rate_percent |-> rate_percent, category_code |-> "S",
     exemption_reason |-> None, exemption_reason_code |-> None,
     tax_point_date |-> None, due_date_type_code |-> None]

\* Every member of PaymentTimeCode has is_invoice_due_date.
Tax__post_init__(self) ==
    IF self.due_date_type_code # None
       /\ self.due_date_type_code[1] \notin PaymentTimeCode
    THEN ModelError("Invalid due date type code")
    ELSE NoExc

Tax_validate(self, profile) ==
    IF ~issubclass(profile, "EN16931Invoice") /\ self.tax_point_date # None
    THEN ModelError("Tax point date is not allowed")
    ELSE NoExc

\* PaymentMeans(type_code, ...).
PaymentMeansFields(type_code) ==
    [type_code |-> type_code, payee_account |-> None, payee_bic |-> None,
     information |-> None, card |-> None, payer_iban |-> None]

PaymentMeans_validate(self, profile) ==
    IF issubclass(profile, "EN16931Invoice") THEN NoExc
    ELSE FirstRaise(<<
           <<self.information # None,
             "Payment means information is not allowed">>,
           <<self.card # None,
             "Payment means card information is not allowed">>,
           <<self.payee_account # None /\ self.payee_account[1].name # None,
             "Payment means account name is not allowed">>,
           <<self.payee_bic # None, "Payment means BIC is not allowed">>
         >>)

\* PaymentTerms(description=, due_date=, direct_debit_mandate_id=).
PaymentTermsFields(description, due_date) ==
    [description |-> description, due_date |-> due_date,
     direct_debit_mandate_id |-> None]

PaymentTerms_validate(self, profile) ==
    IF ~issubclass(profile, "EN16931Invoice") /\ self.description # None
    THEN ModelError("Payment terms description is not allowed")
    ELSE NoExc

\* LineAllowance / LineCharge(actual_amount, reason_code, reason, percent=,
\* basis_amount=); cls is "LineAllowance" or "LineCharge".
LineAllowanceOrCharge(class, actual_amount, percent, basis_amount) ==
    [cls |-> class, actual_amount |-> actual_amount, reason_code |-> None,
     reason |-> None, percent |-> percent, basis_amount |-> basis_amount]

LineAllowance_validate(self, profile) ==
    IF issubclass(profile, "EN16931Invoice") THEN NoExc
    ELSE FirstRaise(<<
           <<self.percent # None,
             "Percentage-based allowances are not allowed">>,
           <<self.basis_amount # None,
             "Basis amount-based allowances are not allowed">>
         >>)

LineCharge_validate(self, profile) ==
    IF issubclass(profile, "EN16931Invoice") THEN NoExc
    ELSE FirstRaise(<<
           <<self.percent # None,
             "Percentage-based charges are not allowed">>,
           <<self.basis_amount # None,
             "Basis amount-based charges are not allowed">>
         >>)

\* DocumentAllowance / DocumentCharge add tax_category and tax_rate.
DocumentAllowanceOrCharge(class, actual_amount, percent, basis_amount) ==
    [cls |-> class, actual_amount |-> actual_amount, reason_code |-> None,
     reason |-> None, percent |-> percent, basis_amount |-> basis_amount,
     tax_category |-> "S", tax_rate |-> None]

\* LineItem(id, name, net_price, billed_quantity, billed_total, tax_rate).
LineItem(id, name, net_price, billed_quantity, billed_total, tax_rate) ==
    [cls |-> "LineItem", id |-> id, name |-> name, net_price |-> net_price,
     billed_quantity |-> billed_quantity, billed_total |-> billed_total,
     tax_rate |-> tax_rate, tax_category |-> "S", global_id |-> None,
     basis_quantity |-> None, allowances |-> <<>>, charges |-> <<>>]

\* The fields EN16931LineItem adds to LineItem, with their defaults.
EN16931LineItemFields ==
    [description |-> None, note |-> None, gross_unit_price |-> None,
     gross_allowance_or_charge |-> None, seller_assigned_id |-> None,
     buyer_assigned_id |-> None, product_characteristics |-> <<>>,
     product_classifications |-> <<>>, origin_country |-> None,
     buyer_order_line_id |-> None, billing_period |-> None,
     doc_ref |-> None, trade_account_id |-> None]

\* The record with the fields of both r and s, those of s taking precedence.
Merge(r, s) ==
    [f \in DOMAIN r \cup DOMAIN s |-> IF f \in DOMAIN s THEN s[f] ELSE r[f]]

isinstance_EN16931LineItem(li) == li.cls = "EN16931LineItem"

LineItem_validate(self, profile) ==
    FirstErr(Each(self.allowances, LAMBDA a : LineAllowance_validate(a, profile))
             \o Each(self.charges, LAMBDA c : LineCharge_validate(c, profile)))

EN16931LineItem__post_init__(self) ==
    FirstRaise(<<
      <<self.note # None /\ self.note[1].subject_code # None,
        "Line item note subject codes are not allowed">>,
      <<self.gross_allowance_or_charge # None /\ self.gross_unit_price = None,
        "Allowance/charge requires a gross unit price">>,
      <<self.origin_country # None
          /\ ~validate_iso_3166_1_alpha_2(self.origin_country[1]),
        "Invalid ISO 3166-1 alpha-2 country code.">>,
      <<self.billing_period # None
          /\ self.billing_period[1][1] > self.billing_period[1][2],
        "Billing period start date must be before end date.">>
    >>)

\* EN16931LineItem(...): the base fields, the added fields, __post_init__.
EN16931LineItem(base, added) ==
    LET self == Merge(Merge(base, EN16931LineItemFields),
                      Merge(added, [cls |-> "EN16931LineItem"]))
    IN  IF IsErr(EN16931LineItem__post_init__(self))
        THEN EN16931LineItem__post_init__(self)
        ELSE Return(self)

\* ReferenceDocument(id, type_code, ...).
ReferenceDocumentFields(id, type_code) ==
    [id |-> id, type_code |-> type_code, name |-> None, url |-> None,
     attachment |-> None, reference_type_code |-> None]

ReferenceDocument__post_init__(self) ==
    IF ~is_supporting_document_type(self.type_code)
    THEN ModelError("Invalid reference document type code")
    ELSE NoExc

(***************************************************************************)
(* model.py: the invoice classes.                                          *)
(***************************************************************************)
\* The optional fields of MinimumInvoice with their defaults.
MinimumInvoiceDefaults ==
    [line_total_amount |-> None, business_process_id |-> None,
     buyer_reference |-> None, buyer_order_id |-> None]

\* The optional fields BasicWLInvoice adds, with their defaults.
BasicWLInvoiceDefaults ==
    [charge_total_amount |-> None, allowance_total_amount |-> None,
     prepaid_amount |-> None, payee |-> None, delivery_date |-> None,
     billing_period |-> None, allowances |-> <<>>, charges |-> <<>>,
     notes |-> <<>>, seller_tax_representative |-> None,
     contract_id |-> None, ship_to |-> None, despatch_advice_id |-> None,
     sepa_reference |-> None, payment_reference |-> None,
     payment_means |-> <<>>, payment_terms |-> None,
     preceding_invoices |-> <<>>, receiver_accounting_ids |-> <<>>]

\* The optional fields EN16931Invoice adds, with their defaults.
EN16931InvoiceDefaults ==
    [receiving_advice_id |-> None, rounding_amount |-> None,
     seller_order_id |-> None, referenced_docs |-> <<>>,
     procuring_project |-> None, tax_currency_code |-> None]

\* The defaults of all the optional fields of class c.
InvoiceDefaults(c) ==
    CASE c = "MinimumInvoice" -> MinimumInvoiceDefaults
      [] c \in {"BasicWLInvoice", "BasicInvoice"} ->
            Merge(MinimumInvoiceDefaults, BasicWLInvoiceDefaults)
      [] c = "EN16931Invoice" ->
            Merge(Merge(MinimumInvoiceDefaults, BasicWLInvoiceDefaults),
                  EN16931InvoiceDefaults)

\* MinimumInvoice.__post_init__ without the two calls of TradeParty.validate.
MinimumInvoice__post_init__unvalidated_parties(self) ==
    FirstErr(<<
      IF ~is_invoice_type(self.type_code)
      THEN ModelError("Invalid invoice type code") ELSE NoExc,
      validate_iso_4217_currency(self.currency_code),
      IF self.cls = "MinimumInvoice" /\ Len(self.tax_total_amounts) > 1
      THEN ModelError("Multiple tax total amounts are not allowed")
      ELSE NoExc
    >>)

MinimumInvoice__post_init__(self) ==
    FirstErr(<<
      IF ~is_invoice_type(self.type_code)
      THEN ModelError("Invalid invoice type code") ELSE NoExc,
      TradeParty_validate(self.seller, self.cls, "seller"),
      TradeParty_validate(self.buyer, self.cls, "buyer"),
      validate_iso_4217_currency(self.currency_code),
      IF self.cls = "MinimumInvoice" /\ Len(self.tax_total_amounts) > 1
      THEN ModelError("Multiple tax total amounts are not allowed")
      ELSE NoExc
    >>)

BasicWLInvoice__post_init__(self) ==
    FirstErr(
      <<MinimumInvoice__post_init__(self),
        IF self.line_total_amount = None
        THEN ModelError("Line total amount is required in BASIC WL profile.")
        ELSE NoExc,
        IF Len(self.tax) < 1
        THEN ModelError("At least one tax entry is required.") ELSE NoExc>>
      \o Each(self.tax, LAMBDA t : Tax_validate(t, self.cls))
      \o <<IF self.payee # None
           THEN TradeParty_validate(self.payee[1], self.cls, "payee")
           ELSE NoExc,
           IF self.seller_tax_representative # None
           THEN TradeParty_validate(self.seller_tax_representative[1],
                                    self.cls, "seller tax representative")
           ELSE NoExc,
           IF self.ship_to # None
           THEN TradeParty_validate(self.ship_to[1], self.cls, "ship to")
           ELSE NoExc>>
      \o Each(self.payment_means, LAMBDA m : PaymentMeans_validate(m, self.cls))
      \o <<IF self.payment_terms # None
           THEN PaymentTerms_validate(self.payment_terms[1], self.cls)
           ELSE NoExc,
           IF Len(self.tax_total_amounts) > 2
           THEN ModelError("Multiple tax total amounts are not allowed")
           ELSE NoExc>>)

\* BasicInvoice.__post_init__ with the test "isinstance(li, EN16931LineItem)"
\* left out.
BasicInvoice__post_init__any_line_item(self) ==
    FirstErr(
      <<IF Len(self.line_items) < 1
        THEN ModelError("At least one line item is required.") ELSE NoExc>>
      \o Each(self.line_items, LAMBDA li : LineItem_validate(li, self.cls))
      \o <<IF Len(self.receiver_accounting_ids) > 1
           THEN ModelError("Multiple accounting reference IDs are not allowed")
           ELSE NoExc>>)

\* BasicInvoice.__post_init__: it does not call super().__post_init__().
BasicInvoice__post_init__(self) ==
    FirstErr(
      <<IF Len(self.line_items) < 1
        THEN ModelError("At least one line item is required.") ELSE NoExc,
        IF /\ self.cls = "BasicInvoice"
           /\ \E i \in 1..Len(self.line_items) :
                  isinstance_EN16931LineItem(self.line_items[i])
        THEN Raise("TypeError",
                   "EN 16931/COMFORT line items are not allowed in the BASIC profile.")
        ELSE NoExc>>
      \o Each(self.line_items, LAMBDA li : LineItem_validate(li, self.cls))
      \o <<IF Len(self.receiver_accounting_ids) > 1
           THEN ModelError("Multiple accounting reference IDs are not allowed")
           ELSE NoExc>>)

\* The __post_init__ that type(self) resolves to: EN16931Invoice defines
\* none and inherits BasicInvoice's.
Invoice__post_init__(self) ==
    CASE self.cls = "MinimumInvoice" -> MinimumInvoice__post_init__(self)
      [] self.cls = "BasicWLInvoice" -> BasicWLInvoice__post_init__(self)
      [] self.cls \in {"BasicInvoice", "EN16931Invoice"} ->
            BasicInvoice__post_init__(self)

\* The fields without a default of each invoice class.
RequiredFields(c) ==
    {"invoice_number", "type_code", "invoice_date", "seller", "buyer",
     "currency_code", "tax_basis_total_amount", "tax_total_amounts",
     "grand_total_amount", "due_payable_amount"}
    \cup (IF issubclass(c, "BasicWLInvoice") THEN {"tax"} ELSE {})
    \cup (IF issubclass(c, "BasicInvoice") THEN {"line_items"} ELSE {})

\* The constructor call cls(**kwargs): the generated __init__ rejects the
\* names that are no fields of cls and the absence of a field without a
\* default, stores the arguments over the defaults, then runs __post_init__.
NewInvoice(c, kwargs) ==
    LET self == Merge(Merge(InvoiceDefaults(c), kwargs), [cls |-> c])
    IN  IF DOMAIN kwargs \ (RequiredFields(c) \cup DOMAIN InvoiceDefaults(c)) # {}
        THEN Raise("TypeError", "got an unexpected keyword argument")
        ELSE IF RequiredFields(c) \ DOMAIN kwargs # {}
        THEN Raise("TypeError", "missing required argument")
        ELSE IF IsErr(Invoice__post_init__(self))
        THEN Invoice__post_init__(self)
        ELSE Return(self)

(***************************************************************************)
(* test_data/__init__.py: the four sample invoices, as the keyword         *)
(* arguments their constructors receive. Long texts are shortened.         *)
(***************************************************************************)
EUR == <<"E", "U", "R">>

DE == <<"D", "E">>

\* The Decimal with the given coefficient and exponent.
Dec(coeff, exp) == [coeff |-> coeff, exp |-> exp]

\* Money("<coeff with two or four decimals>", "EUR").
Euro(coeff, exp) == [amount |-> Dec(coeff, exp), currency |-> EUR]

\* PostalAddress("DE", None, post_code, city, line_one).
GermanAddress(post_code, city, line_one) ==
    Merge(PostalAddressFields(DE),
          [post_code |-> Some(post_code), city |-> Some(city),
           line_one |-> Some(line_one)])

minimum_rechnung ==
    [invoice_number |-> "471102", type_code |-> 380,
     invoice_date |-> 20200305,
     seller |-> Merge(TradeParty(Some("Lieferant GmbH"),
                                 Some(PostalAddressFields(DE))),
                      [tax_number |-> Some("201/113/40209"),
                       vat_id |-> Some("DE123456789")]),
     buyer |-> TradeParty(Some("Kunden AG Frankreich"), None),
     currency_code |-> EUR,
     tax_basis_total_amount |-> Euro(19800, -2),
     tax_total_amounts |-> <<Euro(3762, -2)>>,
     grand_total_amount |-> Euro(23562, -2),
     due_payable_amount |-> Euro(23562, -2)]

basic_wl_einfach ==
    [invoice_number |-> "TX-471102", type_code |-> 380,
     invoice_date |-> 20191030, currency_code |-> EUR,
     delivery_date |-> Some(20191029),
     seller |-> Merge(TradeParty(Some("Taxiunternehmen TX GmbH"),
                        Some(GermanAddress("10369", "Berlin",
                                           "Lieferantenstrasse 20"))),
                      [vat_id |-> Some("DE123456789")]),
     buyer |-> TradeParty(Some("Taxi-Gast AG Mitte"),
                 Some(Merge(GermanAddress("13351", "Berlin", "Hans Mustermann"),
                            [line_two |-> Some("Kundenstrasse 15")]))),
     line_total_amount |-> Some(Euro(1690, -2)),
     charge_total_amount |-> Some(Euro(0, -2)),
     allowance_total_amount |-> Some(Euro(0, -2)),
     tax_basis_total_amount |-> Euro(1690, -2),
     tax |-> <<TaxFields(Euro(118, -2), Euro(1690, -2), Some(Dec(7, 0)))>>,
     tax_total_amounts |-> <<Euro(118, -2)>>,
     grand_total_amount |-> Euro(1808, -2),
     due_payable_amount |-> Euro(1808, -2),
     payment_terms |-> Some(PaymentTermsFields(None, Some(20191129))),
     notes |-> <<[content |-> "Rechnung", subject_code |-> None],
                 [content |-> "Taxiunternehmen", subject_code |-> None],
                 [content |-> "Unsere GLN", subject_code |-> None]>>]

basic_einfach ==
    [invoice_number |-> "471102", type_code |-> 380,
     invoice_date |-> 20200305, currency_code |-> EUR,
     delivery_date |-> Some(20200305),
     seller |-> Merge(TradeParty(Some("Lieferant GmbH"),
                        Some(GermanAddress("80333", "Muenchen",
                                           "Lieferantenstrasse 20"))),
                      [tax_number |-> Some("201/113/40209"),
                       vat_id |-> Some("DE123456789")]),
     buyer |-> TradeParty(Some("Kunden AG Mitte"),
                 Some(Merge(GermanAddress("69876", "Frankfurt", "Hans Muster"),
                            [line_two |-> Some("Kundenstrasse 15")]))),
     line_items |->
        <<Merge(LineItem("1", "Trennblaetter A4", Euro(990, -2),
                         <<Dec(200000, -4), "H87">>, Euro(19800, -2),
                         Some(Dec(19, 0))),
                [global_id |-> Some(<<"4012345001235", Some("0160")>>)])>>,
     line_total_amount |-> Some(Euro(19800, -2)),
     charge_total_amount |-> Some(Euro(0, -2)),
     allowance_total_amount |-> Some(Euro(0, -2)),
     tax_basis_total_amount |-> Euro(19800, -2),
     tax |-> <<TaxFields(Euro(3762, -2), Euro(19800, -2), Some(Dec(1900, -2)))>>,
     tax_total_amounts |-> <<Euro(3762, -2)>>,
     grand_total_amount |-> Euro(23562, -2),
     due_payable_amount |-> Euro(23562, -2),
     payment_terms |-> Some(PaymentTermsFields(None, Some(20200404))),
     notes |-> <<[content |-> "Rechnung", subject_code |-> None],
                 [content |-> "Lieferant GmbH", subject_code |-> None],
                 [content |-> "Unsere GLN", subject_code |-> None]>>]

\* EN16931LineItem(id, name, net_price, (quantity, PIECE), total, rate,
\* global_id=(gtin, GTIN), seller_assigned_id=..., gross_unit_price=...).
en16931_line(id, name, price, quantity, total, rate, gtin, seller_id) ==
    EN16931LineItem(
        LineItem(id, name, price, <<quantity, "H87">>, total, Some(rate)),
        [global_id |-> Some(<<gtin, Some("0160")>>),
         seller_assigned_id |-> Some(seller_id),
         gross_unit_price |-> Some(<<price, None>>)]).val[1]

en16931_einfach ==
    [invoice_number |-> "471102", type_code |-> 380,
     invoice_date |-> 20180305, currency_code |-> EUR,
     delivery_date |-> Some(20180305),
     seller |-> Merge(TradeParty(Some("Lieferant GmbH"),
                        Some(GermanAddress("80333", "Muenchen",
                                           "Lieferantenstrasse 20"))),
                      [tax_number |-> Some("201/113/40209"),
                       vat_id |-> Some("DE123456789"),
                       ids |-> <<"549910">>,
                       global_ids |-> <<<<"4000001123452", Some("0088")>>>>]),
     buyer |-> Merge(TradeParty(Some("Kunden AG Mitte"),
                        Some(GermanAddress("69876", "Frankfurt",
                                           "Kundenstrasse 15"))),
                     [ids |-> <<"GE2020211">>]),
     line_items |->
        <<en16931_line("1", "Trennblaetter A4", Euro(99000, -4),
                       Dec(200000, -4), Euro(19800, -2), Dec(1900, -2),
                       "4012345001235", "TB100A4"),
          en16931_line("2", "Joghurt Banane", Euro(55000, -4),
                       Dec(500000, -4), Euro(27500, -2), Dec(700, -2),
                       "4000050986428", "ARNR2")>>,
     line_total_amount |-> Some(Euro(47300, -2)),
     charge_total_amount |-> Some(Euro(0, -2)),
     allowance_total_amount |-> Some(Euro(0, -2)),
     tax_basis_total_amount |-> Euro(47300, -2),
     tax |-> <<TaxFields(Euro(1925, -2), Euro(27500, -2), Some(Dec(700, -2))),
               TaxFields(Euro(3762, -2), Euro(19800, -2), Some(Dec(1900, -2)))>>,
     tax_total_amounts |-> <<Euro(5687, -2)>>,
     grand_total_amount |-> Euro(52987, -2),
     prepaid_amount |-> Some(Euro(0, -2)),
     due_payable_amount |-> Euro(52987, -2),
     payment_terms |-> Some(PaymentTermsFields(Some("Zahlbar innerhalb 30 Tagen"),
                                               None)),
     notes |-> <<[content |-> "Rechnung", subject_code |-> None],
                 [content |-> "Lieferant GmbH", subject_code |-> Some("REG")]>>]

\* The sample arguments of each invoice class.
SampleKwargs(c) ==
    CASE c = "MinimumInvoice" -> minimum_rechnung
      [] c = "BasicWLInvoice" -> basic_wl_einfach
      [] c = "BasicInvoice" -> basic_einfach
      [] c = "EN16931Invoice" -> en16931_einfach

(***************************************************************************)
(* xml.etree.ElementTree as parse.py uses it. An element is a record       *)
(* [tag, attrib, text, children]: the qualified tag ("ram:Name" for        *)
(* {NS_RAM}Name), the attributes as a set of <<name, value>> pairs, the    *)
(* text (None for an element without text) and the child elements. A path  *)
(* "./a/b" is the sequence <<a, b>>.                                       *)
(***************************************************************************)
Element(tag, attrib, text, children) ==
    [tag |-> tag, attrib |-> attrib, text |-> text, children |-> children]

\* An element with children only, with text only, with text and attributes.
E(tag, children) == Element(tag, {}, None, children)

T(tag, text) == Element(tag, {}, Some(text), <<>>)

TA(tag, attrib, text) == Element(tag, attrib, Some(text), <<>>)

\* The placeholder where no element is meant.
NoElement == E("", <<>>)

\* Element.findall(path) from the given children on.
RECURSIVE FindAllFrom(_, _, _)
FindAllFrom(children, path, i) ==
    IF i > Len(children) THEN <<>>
    ELSE (IF children[i].tag # path[1] THEN <<>>
          ELSE IF Len(path) = 1 THEN <<children[i]>>
          ELSE FindAllFrom(children[i].children, Tail(path), 1))
         \o FindAllFrom(children, path, i + 1)

findall(el, path) == FindAllFrom(el.children, path, 1)

\* Element.find(path): the first match in document order, or None.
find(el, path) ==
    IF Len(findall(el, path)) = 0 THEN None ELSE Some(findall(el, path)[1])

\* Element.attrib.get(name).
attrib_get(el, name) ==
    IF \E p \in el.attrib : p[1] = name
    THEN Some((CHOOSE p \in el.attrib : p[1] = name)[2])
    ELSE None

(***************************************************************************)
(* Sequencing of calls that may raise.                                     *)
(***************************************************************************)
\* "v = <call r>; <rest using v>": the rest runs only when r returned.
Bind(r, rest(_)) == IF IsErr(r) THEN r ELSE rest(r.val[1])

\* "[f(x) for x in s]" with an f that may raise: the first exception in
\* order, else the list of the returned values.
ForEach(s, f(_)) ==
    LET outs == Each(s, f)
    IN  IF IsErr(FirstErr(outs)) THEN FirstErr(outs)
        ELSE Return([i \in 1..Len(s) |-> outs[i].val[1]])

\* Independent calls made in the given order, their outcomes in the fields
\* of outs: the first exception in that order, else the record of values.
Gather(order, outs) ==
    LET first == FirstErr([i \in 1..Len(order) |-> outs[order[i]]])
    IN  IF IsErr(first) THEN first
        ELSE Return([f \in DOMAIN outs |-> outs[f].val[1]])

(***************************************************************************)
(* The text of a document as characters. TLA+ strings are atomic, so the   *)
(* texts that the code inspects character by character are spelled out.    *)
(***************************************************************************)
Chars(text) ==
    CASE text = "" -> <<>>
      [] text = "EUR" -> <<"E", "U", "R">>
      [] text = "USD" -> <<"U", "S", "D">>
      [] text = "eur" -> <<"e", "u", "r">>
      [] text = "EURO" -> <<"E", "U", "R", "O">>
      [] text = "EUR\n" -> <<"E", "U", "R", "\n">>
      [] text = "DE" -> <<"D", "E">>
      [] text = "FR" -> <<"F", "R">>
      [] text = "de" -> <<"d", "e">>
      [] text = "DE\n" -> <<"D", "E", "\n">>
      [] text = "abc" -> <<"a", "b", "c">>
      [] text = "0.00" -> <<"0", ".", "0", "0">>
      [] text = "7" -> <<"7">>
      [] text = "19" -> <<"1", "9">>
      [] text = "7.00" -> <<"7", ".", "0", "0">>
      [] text = "19.00" -> <<"1", "9", ".", "0", "0">>
      [] text = "1.18" -> <<"1", ".", "1", "8">>
      [] text = "9.90" -> <<"9", ".", "9", "0">>
      [] text = "16.90" -> <<"1", "6", ".", "9", "0">>
      [] text = "18.08" -> <<"1", "8", ".", "0", "8">>
      [] text = "19.25" -> <<"1", "9", ".", "2", "5">>
      [] text = "37.62" -> <<"3", "7", ".", "6", "2">>
      [] text = "56.87" -> <<"5", "6", ".", "8", "7">>
      [] text = "198.00" -> <<"1", "9", "8", ".", "0", "0">>
      [] text = "235.62" -> <<"2", "3", "5", ".", "6", "2">>
      [] text = "275.00" -> <<"2", "7", "5", ".", "0", "0">>
      [] text = "473.00" -> <<"4", "7", "3", ".", "0", "0">>
      [] text = "529.87" -> <<"5", "2", "9", ".", "8", "7">>
      [] text = "5.5000" -> <<"5", ".", "5", "0", "0", "0">>
      [] text = "9.9000" -> <<"9", ".", "9", "0", "0", "0">>
      [] text = "20.0000" -> <<"2", "0", ".", "0", "0", "0", "0">>
      [] text = "50.0000" -> <<"5", "0", ".", "0", "0", "0", "0">>
      [] text = "380" -> <<"3", "8", "0">>
      [] text = "381" -> <<"3", "8", "1">>
      [] text = "916" -> <<"9", "1", "6">>
      [] text = "130" -> <<"1", "3", "0">>
      [] text = "41" -> <<"4", "1">>
      [] text = "5" -> <<"5">>
      [] text = "20180305" -> <<"2", "0", "1", "8", "0", "3", "0", "5">>
      [] text = "20191029" -> <<"2", "0", "1", "9", "1", "0", "2", "9">>
      [] text = "20191030" -> <<"2", "0", "1", "9", "1", "0", "3", "0">>
      [] text = "20191129" -> <<"2", "0", "1", "9", "1", "1", "2", "9">>
      [] text = "20200305" -> <<"2", "0", "2", "0", "0", "3", "0", "5">>
      [] text = "20200404" -> <<"2", "0", "2", "0", "0", "4", "0", "4">>
      [] text = "20200230" -> <<"2", "0", "2", "0", "0", "2", "3", "0">>
      [] text = "2020-03" -> <<"2", "0", "2", "0", "-", "0", "3">>
      [] text = "QUJD" -> <<"Q", "U", "J", "D">>
      [] text = "QUJ" -> <<"Q", "U", "J">>

\* int(text) for the texts above: <<>> stands for ValueError.
int(text) ==
    LET cs == Chars(text)
    IN  IF Len(cs) >= 1 /\ \A i \in 1..Len(cs) : cs[i] \in Digits
        THEN Some(DigitsValue(cs))
        ELSE None

(***************************************************************************)
(* parse.py: the helpers that read one value from an element.              *)
(***************************************************************************)
_find_text(parent, tag) ==
    LET el == find(parent, tag)
    IN  IF el = None THEN InvalidXMLError("Element not found")
        ELSE IF el[1].text = None THEN InvalidXMLError("Element has no text")
        ELSE Return(el[1].text[1])

_find_all_texts(parent, tag) ==
    ForEach(findall(parent, tag),
            LAMBDA el : IF el.text = None
                        THEN InvalidXMLError("Element has no text")
                        ELSE Return(el.text[1]))

_find_text_optional(parent, tag) ==
    LET el == find(parent, tag)
    IN  IF el = None THEN Return(None)
        ELSE IF el[1].text = None THEN InvalidXMLError("Element has no text")
        ELSE Return(el[1].text)

_find_indicator(parent, tag) ==
    LET el == find(parent, tag)
        indicator == find(el[1], <<"ram:Indicator">>)
    IN  IF el = None THEN InvalidXMLError("Element not found")
        ELSE IF indicator = None
        THEN InvalidXMLError("Indicator element not found")
        ELSE IF indicator[1].text = Some("true") THEN Return(TRUE)
        ELSE IF indicator[1].text = Some("false") THEN Return(FALSE)
        ELSE InvalidXMLError("Invalid indicator")

\* The result is the tuple (text, scheme ID or None).
_parse_id(el, scheme_required) ==
    LET scheme_id_s == attrib_get(el, "schemeID")
    IN  IF el.text = None THEN InvalidXMLError("ID element has no text")
        ELSE IF scheme_id_s = None /\ scheme_required
        THEN InvalidXMLError("schemeID attribute not found")
        ELSE IF scheme_id_s # None /\ scheme_id_s[1] \notin IdentifierSchemeCode
        THEN InvalidXMLError("not a valid IdentifierSchemeCode")
        ELSE Return(<<el.text[1], scheme_id_s>>)

_find_all_ids(parent, tag, scheme_required) ==
    ForEach(findall(parent, tag), LAMBDA el : _parse_id(el, scheme_required))

_find_id_optional(parent, tag, scheme_required) ==
    LET el == find(parent, tag)
    IN  IF el = None THEN Return(None)
        ELSE Bind(_parse_id(el[1], scheme_required), LAMBDA id : Return(Some(id)))

\* Decimal(text) inside "try: ... except ValueError": decimal.InvalidOperation
\* is an ArithmeticError, no ValueError, and leaves the function as it is.
DecimalOrRaise(text) ==
    IF Decimal(Chars(text)) = None
    THEN Raise("InvalidOperation", "decimal.ConversionSyntax")
    ELSE Return(Decimal(Chars(text))[1])

_find_percent_optional(parent, tag) ==
    Bind(_find_text_optional(parent, tag),
         LAMBDA rate_s :
            IF rate_s = None THEN Return(None)
            ELSE Bind(DecimalOrRaise(rate_s[1]), LAMBDA d : Return(Some(d))))

\* The result is None or the tuple (quantity, unit code or None).
_find_optional_quantity_optional(parent, tag) ==
    LET el == find(parent, tag)
        code_s == attrib_get(el[1], "unitCode")
    IN  IF el = None THEN Return(None)
        ELSE IF el[1].text = None THEN InvalidXMLError("Element has no text")
        ELSE Bind(DecimalOrRaise(el[1].text[1]),
                  LAMBDA quantity :
                     IF code_s # None /\ code_s[1] \notin QuantityCode
                     THEN InvalidXMLError("not a valid QuantityCode")
                     ELSE Return(Some(<<quantity, code_s>>)))

_find_quantity(parent, tag) ==
    Bind(_find_optional_quantity_optional(parent, tag),
         LAMBDA quantity :
            IF quantity = None THEN InvalidXMLError("Element not found")
            ELSE IF quantity[1][2] = None
            THEN InvalidXMLError("Element has no unitCode")
            ELSE Return(<<quantity[1][1], quantity[1][2][1]>>))

\* _parse_amount without the currencyID attribute: the invoice currency for
\* every amount.
_parse_amount_default_only(el, default_currency, require_currency) ==
    IF el.text = None THEN InvalidXMLError("Element has no text")
    ELSE LET m == Money(Chars(el.text[1]), default_currency)
         IN  IF m.exc = "ValueError" THEN InvalidXMLError(m.msg) ELSE m

\* default_currency is the text of InvoiceCurrencyCode, as characters.
_parse_amount(el, default_currency, require_currency) ==
    LET attr == attrib_get(el, "currencyID")
        currency_code == IF attr = None THEN default_currency
                         ELSE Chars(attr[1])
    IN  IF attr = None /\ require_currency
        THEN InvalidXMLError("currencyID attribute not found")
        ELSE IF el.text = None THEN InvalidXMLError("Element has no text")
        ELSE LET m == Money(Chars(el.text[1]), currency_code)
             IN  IF m.exc = "ValueError" THEN InvalidXMLError(m.msg) ELSE m

_find_amount(parent, tag, default_currency) ==
    LET el == find(parent, tag)
    IN  IF el = None THEN InvalidXMLError("Element not found")
        ELSE _parse_amount(el[1], default_currency, FALSE)

_find_all_amounts(parent, tag, default_currency) ==
    ForEach(findall(parent, tag),
            LAMBDA el : _parse_amount(el, default_currency, FALSE))

_find_amount_optional(parent, tag, default_currency) ==
    LET el == find(parent, tag)
    IN  IF el = None THEN Return(None)
        ELSE Bind(_parse_amount(el[1], default_currency, FALSE),
                  LAMBDA m : Return(Some(m)))

\* calendar: the number of days of a month.
DaysInMonth(year, month) ==
    IF month = 2
    THEN (IF year % 4 = 0 /\ (year % 100 # 0 \/ year % 400 = 0) THEN 29 ELSE 28)
    ELSE IF month \in {4, 6, 9, 11} THEN 30 ELSE 31

\* _DATE_RE.fullmatch(text), then date.fromisoformat(text): eight digits
\* that name a day of the calendar. The date is the number YYYYMMDD.
ParseDate(text) ==
    LET cs == Chars(text)
        year == DigitsValue(SubSeq(cs, 1, 4))
        month == DigitsValue(SubSeq(cs, 5, 6))
        day == DigitsValue(SubSeq(cs, 7, 8))
    IN  IF ~(Len(cs) = 8 /\ \A i \in 1..8 : cs[i] \in Digits)
        THEN InvalidXMLError("Invalid date")
        ELSE IF ~(year >= 1 /\ month \in 1..12
                  /\ day \in 1..DaysInMonth(year, month))
        THEN InvalidXMLError("Invalid date")
        ELSE Return(DigitsValue(cs))

_find_date_optional(parent, tag) ==
    LET date_el == find(parent, tag)
        dts_el == find(date_el[1], <<"udt:DateTimeString">>)
    IN  IF date_el = None THEN Return(None)
        ELSE IF dts_el = None
        THEN InvalidXMLError("DateTimeString element not found")
        ELSE IF attrib_get(dts_el[1], "format") # Some("102")
        THEN InvalidXMLError("Invalid format in DateTimeString")
        ELSE IF dts_el[1].text = None
        THEN InvalidXMLError("DateTimeString element has no text")
        ELSE Bind(ParseDate(dts_el[1].text[1]), LAMBDA d : Return(Some(d)))

_find_date(parent, tag) ==
    Bind(_find_date_optional(parent, tag),
         LAMBDA date : IF date = None THEN InvalidXMLError("Element not found")
                       ELSE Return(date[1]))

_find_ref_doc_id_optional(parent, tag) ==
    LET el == find(parent, tag)
        id_el == find(el[1], <<"ram:IssuerAssignedID">>)
    IN  IF el = None THEN Return(None)
        ELSE IF id_el = None
        THEN InvalidXMLError("IssuerAssignedID element not found")
        ELSE IF id_el[1].text = None
        THEN InvalidXMLError("IssuerAssignedID element has no text")
        ELSE Return(id_el[1].text)

(***************************************************************************)
(* parse.py: the recurring elements.                                       *)
(***************************************************************************)
\* The result is the tuple (legal ID or None, trading business name or None).
_parse_legal_org(parent) ==
    LET legal_org_el == find(parent, <<"ram:SpecifiedLegalOrganization">>)
    IN  IF legal_org_el = None THEN Return(<<None, None>>)
        ELSE Bind(_find_id_optional(legal_org_el[1], <<"ram:ID">>, FALSE),
               LAMBDA id :
                 Bind(_find_text_optional(legal_org_el[1],
                                          <<"ram:TradingBusinessName">>),
                      LAMBDA name : Return(<<id, name>>)))

\* The result is the tuple (is a VAT ID, the ID).
_parse_tax_reg(parent) ==
    LET id_el == find(parent, <<"ram:ID">>)
        scheme == attrib_get(id_el[1], "schemeID")
    IN  IF id_el = None
        THEN InvalidXMLError("ID element not found in SpecifiedTaxRegistration")
        ELSE IF id_el[1].text = None
        THEN InvalidXMLError("ID element has no text")
        ELSE IF scheme = Some("FC") THEN Return(<<FALSE, id_el[1].text[1]>>)
        ELSE IF scheme = Some("VA") THEN Return(<<TRUE, id_el[1].text[1]>>)
        ELSE InvalidXMLError("Invalid schemeID")

\* The loop over the SpecifiedTaxRegistration elements from the i-th on, with
\* the tax number and VAT ID found so far.
RECURSIVE TaxRegistrations(_, _, _, _)
TaxRegistrations(regs, i, tax_number, vat_id) ==
    IF i > Len(regs)
    THEN Return([tax_number |-> tax_number, vat_id |-> vat_id])
    ELSE Bind(_parse_tax_reg(regs[i]),
           LAMBDA reg :
             IF reg[1]
             THEN (IF vat_id # None
                   THEN InvalidXMLError("Multiple VAT IDs found")
                   ELSE TaxRegistrations(regs, i + 1, tax_number, Some(reg[2])))
             ELSE (IF tax_number # None
                   THEN InvalidXMLError("Multiple tax numbers found")
                   ELSE TaxRegistrations(regs, i + 1, Some(reg[2]), vat_id)))

_parse_trade_contact(el) ==
    Gather(<<"person_name", "department_name", "phone", "email">>,
      [person_name |-> _find_text_optional(el, <<"ram:PersonName">>),
       department_name |-> _find_text_optional(el, <<"ram:DepartmentName">>),
       phone |-> _find_text_optional(el,
            <<"ram:TelephoneUniversalCommunication", "ram:CompleteNumber">>),
       email |-> _find_text_optional(el,
            <<"ram:EmailURIUniversalCommunication", "ram:URIID">>)])

_parse_address(parent) ==
    LET address_el == find(parent, <<"ram:PostalTradeAddress">>)
        el == address_el[1]
    IN  IF address_el = None THEN Return(None)
        ELSE Bind(
          Gather(<<"post_code", "line_one", "line_two", "line_three", "city",
                   "country_code", "country_subdivision">>,
            [post_code |-> _find_text_optional(el, <<"ram:PostcodeCode">>),
             line_one |-> _find_text_optional(el, <<"ram:LineOne">>),
             line_two |-> _find_text_optional(el, <<"ram:LineTwo">>),
             line_three |-> _find_text_optional(el, <<"ram:LineThree">>),
             city |-> _find_text_optional(el, <<"ram:CityName">>),
             country_code |-> _find_text(el, <<"ram:CountryID">>),
             country_subdivision |->
                _find_text_optional(el, <<"ram:CountrySubDivisionName">>)]),
          LAMBDA f :
            Bind(PostalAddress([f EXCEPT !.country_code = Chars(@)]),
                 LAMBDA a : Return(Some(a))))

_parse_email(parent) ==
    LET id_el == find(parent, <<"ram:URIUniversalCommunication", "ram:URIID">>)
    IN  IF id_el = None THEN Return(None)
        ELSE IF attrib_get(id_el[1], "schemeID") # Some("EM")
        THEN InvalidXMLError("Invalid schemeID for email")
        ELSE IF id_el[1].text = None
        THEN InvalidXMLError("URIID element has no text")
        ELSE Return(id_el[1].text)

_parse_trade_party_optional(parent, tag) ==
    LET party == find(parent, tag)
        party_el == party[1]
    IN  IF party = None THEN Return(None)
        ELSE Bind(
          Gather(<<"ids", "global_ids", "name", "description", "legal_org",
                   "contacts", "address", "email", "tax_reg">>,
            [ids |-> _find_all_texts(party_el, <<"ram:ID">>),
             global_ids |-> _find_all_ids(party_el, <<"ram:GlobalID">>, FALSE),
             name |-> _find_text(party_el, <<"ram:Name">>),
             description |-> _find_text_optional(party_el, <<"ram:Description">>),
             legal_org |-> _parse_legal_org(party_el),
             contacts |-> ForEach(findall(party_el, <<"ram:DefinedTradeContact">>),
                                  LAMBDA c : _parse_trade_contact(c)),
             address |-> _parse_address(party_el),
             email |-> _parse_email(party_el),
             tax_reg |-> TaxRegistrations(
                findall(party_el, <<"ram:SpecifiedTaxRegistration">>),
                1, None, None)]),
          LAMBDA f :
            Return(Some(
              [name |-> Some(f.name), address |-> f.address, email |-> f.email,
               description |-> f.description,
               tax_number |-> f.tax_reg.tax_number,
               vat_id |-> f.tax_reg.vat_id,
               ids |-> f.ids, global_ids |-> f.global_ids,
               legal_id |-> f.legal_org[1],
               trading_business_name |-> f.legal_org[2],
               contacts |-> f.contacts])))

_parse_trade_party(parent, tag) ==
    Bind(_parse_trade_party_optional(parent, tag),
         LAMBDA trade_party :
            IF trade_party = None THEN InvalidXMLError("element not found")
            ELSE Return(trade_party[1]))

\* The result is the tuple (category code, rate or None).
_parse_tax_simple(el) ==
    Bind(_find_text(el, <<"ram:TypeCode">>),
      LAMBDA type_code_s :
        IF type_code_s # "VAT" THEN InvalidXMLError("Invalid tax TypeCode")
        ELSE Bind(_find_text(el, <<"ram:CategoryCode">>),
          LAMBDA category_code_s :
            IF category_code_s \notin TaxCategoryCode
            THEN InvalidXMLError("not a valid TaxCategoryCode")
            ELSE Bind(_find_percent_optional(el, <<"ram:RateApplicablePercent">>),
                      LAMBDA rate : Return(<<category_code_s, rate>>))))

\* IntEnum(int(text)) inside "try: ... except ValueError": the member for
\* the text, or InvalidXMLError.
IntCode(text, enum) ==
    IF int(text) = None \/ int(text)[1] \notin enum
    THEN InvalidXMLError("not a valid code")
    ELSE Return(int(text)[1])

\* The optional code element tag of parent, a member of the StrEnum enum.
OptionalStrCode(parent, tag, enum) ==
    Bind(_find_text_optional(parent, tag),
         LAMBDA s : IF s # None /\ s[1] \notin enum
                    THEN InvalidXMLError("not a valid code")
                    ELSE Return(s))

_parse_tax(el, default_currency) ==
    Bind(
      Gather(<<"simple", "calculated_amount", "exemption_reason",
               "basis_amount", "exemption_reason_code", "tax_point_date",
               "due_date_type_code">>,
        [simple |-> _parse_tax_simple(el),
         calculated_amount |->
            _find_amount(el, <<"ram:CalculatedAmount">>, default_currency),
         exemption_reason |-> _find_text_optional(el, <<"ram:ExemptionReason">>),
         basis_amount |-> _find_amount(el, <<"ram:BasisAmount">>, default_currency),
         exemption_reason_code |->
            OptionalStrCode(el, <<"ram:ExemptionReasonCode">>, VATExemptionCode),
         tax_point_date |-> _find_date_optional(el, <<"ram:TaxPointDate">>),
         due_date_type_code |->
            Bind(_find_text_optional(el, <<"ram:DueDateTypeCode">>),
                 LAMBDA s : IF s = None THEN Return(None)
                            ELSE Bind(IntCode(s[1], PaymentTimeCode),
                                      LAMBDA c : Return(Some(c))))]),
      LAMBDA f :
        LET self == [calculated_amount |-> f.calculated_amount,
                     basis_amount |-> f.basis_amount,
                     rate_percent |-> f.simple[2],
                     category_code |-> f.simple[1],
                     exemption_reason |-> f.exemption_reason,
                     exemption_reason_code |-> f.exemption_reason_code,
                     tax_point_date |-> f.tax_point_date,
                     due_date_type_code |-> f.due_date_type_code]
        IN  IF IsErr(Tax__post_init__(self)) THEN Tax__post_init__(self)
            ELSE Return(self))

_parse_billing_period_optional(parent) ==
    LET el == find(parent, <<"ram:BillingSpecifiedPeriod">>)
    IN  IF el = None THEN Return(None)
        ELSE Bind(_find_date(el[1], <<"ram:StartDateTime">>),
               LAMBDA start_date :
                 Bind(_find_date(el[1], <<"ram:EndDateTime">>),
                      LAMBDA end_date : Return(Some(<<start_date, end_date>>))))

(***************************************************************************)
(* parse.py: allowances and charges, payment data, referenced documents.   *)
(***************************************************************************)
\* A member of one of the two reason code enumerations: the name of its
\* class and the text of its value.
Member(enum, value) == <<enum, value>>

\* The reason code of a charge is a SpecialServiceCode, that of an
\* allowance an AllowanceChargeCode(int(text)).
ReasonCode(el, surcharge) ==
    Bind(_find_text_optional(el, <<"ram:ReasonCode">>),
      LAMBDA reason_code_s :
        IF reason_code_s = None THEN Return(None)
        ELSE IF surcharge
        THEN (IF reason_code_s[1] \notin SpecialServiceCode
              THEN InvalidXMLError("not a valid SpecialServiceCode")
              ELSE Return(Some(Member("SpecialServiceCode", reason_code_s[1]))))
        ELSE Bind(IntCode(reason_code_s[1], AllowanceChargeCode),
                  LAMBDA c :
                    Return(Some(Member("AllowanceChargeCode", ToString(c))))))

_parse_line_allowance_or_charge(el, default_currency) ==
    Bind(_find_indicator(el, <<"ram:ChargeIndicator">>),
      LAMBDA surcharge :
        Bind(
          Gather(<<"percent", "basis_amount", "actual_amount", "reason_code",
                   "reason">>,
            [percent |-> _find_percent_optional(el, <<"ram:CalculationPercent">>),
             basis_amount |->
                _find_amount_optional(el, <<"ram:BasisAmount">>, default_currency),
             actual_amount |->
                _find_amount(el, <<"ram:ActualAmount">>, default_currency),
             reason_code |-> ReasonCode(el, surcharge),
             reason |-> _find_text_optional(el, <<"ram:Reason">>)]),
          LAMBDA f :
            Return(Merge(f, [cls |-> IF surcharge THEN "LineCharge"
                                     ELSE "LineAllowance"]))))

_parse_allowance_or_charge(el, default_currency) ==
    LET tax_el == find(el, <<"ram:CategoryTradeTax">>)
    IN  Bind(_parse_line_allowance_or_charge(el, default_currency),
          LAMBDA line_allowance :
            IF tax_el = None
            THEN InvalidXMLError("CategoryTradeTax element not found")
            ELSE Bind(_parse_tax_simple(tax_el[1]),
                   LAMBDA tax :
                     Return(Merge(line_allowance,
                        [cls |-> IF line_allowance.cls = "LineCharge"
                                 THEN "DocumentCharge" ELSE "DocumentAllowance",
                         tax_category |-> tax[1], tax_rate |-> tax[2]]))))

_parse_payment_type_code(parent) ==
    Bind(_find_text(parent, <<"ram:TypeCode">>),
         LAMBDA type_code_s :
            IF type_code_s \notin PaymentMeansCode
            THEN InvalidXMLError("not a valid PaymentMeansCode")
            ELSE Return(type_code_s))

_parse_account_optional(parent, tag) ==
    LET el == find(parent, tag)
    IN  IF el = None THEN Return(None)
        ELSE Bind(Gather(<<"iban", "name", "bank_id">>,
                    [iban |-> _find_text_optional(el[1], <<"ram:IBANID">>),
                     name |-> _find_text_optional(el[1], <<"ram:AccountName">>),
                     bank_id |-> _find_text_optional(el[1], <<"ram:ProprietaryID">>)]),
                  LAMBDA a : Return(Some(a)))

\* The card is None or the tuple (ID, cardholder name or None).
PaymentCard(el) ==
    LET card_el == find(el, <<"ram:ApplicableTradeSettlementFinancialCard">>)
    IN  IF card_el = None THEN Return(None)
        ELSE Bind(_find_text(card_el[1], <<"ram:ID">>),
               LAMBDA id :
                 Bind(_find_text_optional(card_el[1], <<"ram:CardholderName">>),
                      LAMBDA name : Return(Some(<<id, name>>))))

\* payer_iban is the text of the IBANID element, None included.
PayerIban(el) ==
    LET payer_iban_el ==
            find(el, <<"ram:PayerPartyDebtorFinancialAccount", "ram:IBANID">>)
    IN  IF payer_iban_el = None THEN None ELSE payer_iban_el[1].text

_parse_payment_means(el) ==
    Gather(<<"type_code", "information", "card", "payer_iban",
             "payee_account", "payee_bic">>,
      [type_code |-> _parse_payment_type_code(el),
       information |-> _find_text_optional(el, <<"ram:Information">>),
       card |-> PaymentCard(el),
       payer_iban |-> Return(PayerIban(el)),
       payee_account |->
          _parse_account_optional(el, <<"ram:PayeePartyCreditorFinancialAccount">>),
       payee_bic |-> _find_text_optional(el,
          <<"ram:PayeeSpecifiedCreditorFinancialInstitution", "ram:BICID">>)])

_parse_payment_terms(parent) ==
    LET el == find(parent, <<"ram:SpecifiedTradePaymentTerms">>)
    IN  IF el = None THEN Return(None)
        ELSE Bind(
          Gather(<<"description", "due_date", "direct_debit_mandate_id">>,
            [description |-> _find_text_optional(el[1], <<"ram:Description">>),
             due_date |-> _find_date_optional(el[1], <<"ram:DueDateDateTime">>),
             direct_debit_mandate_id |->
                _find_text_optional(el[1], <<"ram:DirectDebitMandateID">>)]),
          LAMBDA t : Return(Some(t)))

_parse_summation(parent, default_currency) ==
    LET found ==
            find(parent, <<"ram:SpecifiedTradeSettlementHeaderMonetarySummation">>)
        el == found[1]
    IN  IF found = None
        THEN InvalidXMLError(
            "SpecifiedTradeSettlementHeaderMonetarySummation element not found")
        ELSE Gather(<<"line_total", "charge_total", "allowance_total",
                      "tax_basis_total", "tax_totals", "rounding_amount",
                      "grand_total", "prepaid_amount", "due_payable_amount">>,
          [line_total |->
              _find_amount_optional(el, <<"ram:LineTotalAmount">>, default_currency),
           charge_total |->
              _find_amount_optional(el, <<"ram:ChargeTotalAmount">>, default_currency),
           allowance_total |->
              _find_amount_optional(el, <<"ram:AllowanceTotalAmount">>,
                                    default_currency),
           tax_basis_total |->
              _find_amount(el, <<"ram:TaxBasisTotalAmount">>, default_currency),
           tax_totals |->
              _find_all_amounts(el, <<"ram:TaxTotalAmount">>, default_currency),
           rounding_amount |->
              _find_amount_optional(el, <<"ram:RoundingAmount">>, default_currency),
           grand_total |->
              _find_amount(el, <<"ram:GrandTotalAmount">>, default_currency),
           prepaid_amount |->
              _find_amount_optional(el, <<"ram:TotalPrepaidAmount">>,
                                    default_currency),
           due_payable_amount |->
              _find_amount(el, <<"ram:DuePayableAmount">>, default_currency)])

\* The result is the tuple (ID, issue date or None).
_parse_referenced_invoice(el) ==
    Bind(_find_text(el, <<"ram:IssuerAssignedID">>),
      LAMBDA id :
        Bind(_find_date_optional(el, <<"ram:FormattedIssueDateTime">>),
             LAMBDA issue_date : Return(<<id, issue_date>>)))

_parse_referenced_invoices(parent) ==
    ForEach(findall(parent, <<"ram:InvoiceReferencedDocument">>),
            LAMBDA el : _parse_referenced_invoice(el))

ALLOWED_MIME_TYPES ==
    {"application/pdf", "image/png", "image/jpeg", "text/csv",
     "application/vnd.openxmlformats-officedocument.spreadsheetml.sheet",
     "application/vnd.oasis.opendocument.spreadsheet"}

LowerLetters ==
    {"a", "b", "c", "d", "e", "f", "g", "h", "i", "j", "k", "l", "m",
     "n", "o", "p", "q", "r", "s", "t", "u", "v", "w", "x", "y", "z"}

\* base64.b64decode(content) of a text without "=": the characters outside
\* the alphabet are skipped, the others come in groups of four, else
\* binascii.Error (a ValueError) is raised. The bytes are represented by
\* the characters that encode them.
b64decode(content) ==
    LET data == SelectSeq(Chars(content),
                    LAMBDA c : c \in UpperLetters \cup LowerLetters
                                     \cup Digits \cup {"+", "/"})
    IN  IF Len(data) % 4 # 0 THEN Raise("binascii.Error", "Incorrect padding")
        ELSE Return(data)

\* The result is None or the tuple (content, MIME type, file name).
_parse_attachment_optional(parent) ==
    LET el == find(parent, <<"ram:AttachmentBinaryObject">>)
        mime_type == attrib_get(el[1], "mimeCode")
        filename == attrib_get(el[1], "filename")
    IN  IF el = None THEN Return(None)
        ELSE IF el[1].text = None
        THEN InvalidXMLError("AttachmentBinaryObject element has no text")
        ELSE IF mime_type = None \/ mime_type = Some("")
        THEN InvalidXMLError("AttachmentBinaryObject has no mimeCode")
        ELSE IF mime_type[1] \notin ALLOWED_MIME_TYPES
        THEN InvalidXMLError("MIME type not allowed")
        ELSE IF filename = None \/ filename = Some("")
        THEN InvalidXMLError("AttachmentBinaryObject has no filename")
        ELSE Bind(b64decode(el[1].text[1]),
                  LAMBDA bytes : Return(Some(<<bytes, mime_type[1], filename[1]>>)))

ReferenceQualifierCode == {"PI"}

_parse_reference_document(el) ==
    Bind(_find_text(el, <<"ram:IssuerAssignedID">>),
      LAMBDA id :
        Bind(_find_text(el, <<"ram:TypeCode">>),
          LAMBDA type_code_s :
            Bind(IntCode(type_code_s, DocumentTypeCode),
              LAMBDA type_code :
                Bind(
                  Gather(<<"url", "name", "attachment", "reference_type_code">>,
                    [url |-> _find_text_optional(el, <<"ram:URIID">>),
                     name |-> _find_text_optional(el, <<"ram:Name">>),
                     attachment |-> _parse_attachment_optional(el),
                     reference_type_code |->
                        OptionalStrCode(el, <<"ram:ReferenceTypeCode">>,
                                        ReferenceQualifierCode)]),
                  LAMBDA f :
                    LET self == Merge(f, [id |-> id, type_code |-> type_code])
                    IN  IF IsErr(ReferenceDocument__post_init__(self))
                        THEN ReferenceDocument__post_init__(self)
                        ELSE Return(self)))))

\* The result is the tuple (issuer assigned ID or None, reference type code
\* or None).
_parse_doc_ref(el) ==
    Bind(_find_text_optional(el, <<"ram:IssuerAssignedID">>),
      LAMBDA id :
        Bind(_find_text(el, <<"ram:TypeCode">>),
          LAMBDA type_code :
            IF type_code # "130" THEN InvalidXMLError("Invalid TypeCode")
            ELSE Bind(OptionalStrCode(el, <<"ram:ReferenceTypeCode">>,
                                      ReferenceQualifierCode),
                      LAMBDA ref_type_code : Return(<<id, ref_type_code>>))))

(***************************************************************************)
(* parse.py: the line items.                                               *)
(***************************************************************************)
_parse_note(el) ==
    LET code_el == find(el, <<"ram:SubjectCode">>)
    IN  Bind(_find_text(el, <<"ram:Content">>),
          LAMBDA content :
            IF code_el = None
            THEN Return([content |-> content, subject_code |-> None])
            ELSE IF code_el[1].text = None
            THEN InvalidXMLError("SubjectCode element has no text")
            ELSE IF code_el[1].text[1] \notin TextSubjectCode
            THEN InvalidXMLError("Invalid SubjectCode")
            ELSE Return([content |-> content,
                         subject_code |-> code_el[1].text]))

_parse_line_document(parent) ==
    LET el == find(parent, <<"ram:AssociatedDocumentLineDocument">>)
        note_el == find(el[1], <<"ram:IncludedNote">>)
    IN  IF el = None
        THEN InvalidXMLError("AssociatedDocumentLineDocument element not found")
        ELSE Bind(_find_text(el[1], <<"ram:LineID">>),
               LAMBDA id :
                 IF note_el = None THEN Return([id |-> id, note |-> None])
                 ELSE Bind(_parse_note(note_el[1]),
                           LAMBDA note : Return([id |-> id, note |-> Some(note)])))

_parse_product_characteristic(parent) ==
    Bind(_find_text(parent, <<"ram:Description">>),
      LAMBDA description :
        Bind(_find_text(parent, <<"ram:Value">>),
             LAMBDA value : Return([description |-> description, value |-> value])))

ItemTypeCode == {"IB", "IS"}

_parse_product_classification(parent) ==
    LET class_code_el == find(parent, <<"ram:ClassCode">>)
        list_id_s == attrib_get(class_code_el[1], "listID")
    IN  IF class_code_el = None THEN InvalidXMLError("ClassCode element not found")
        ELSE IF class_code_el[1].text = None
        THEN InvalidXMLError("ClassCode element has no text")
        ELSE IF list_id_s # None /\ list_id_s[1] \notin ItemTypeCode
        THEN InvalidXMLError("not a valid ItemTypeCode")
        ELSE Return([class_code |-> class_code_el[1].text[1],
                     list_id |-> list_id_s,
                     list_version_id |->
                        attrib_get(class_code_el[1], "listVersionID")])

_parse_trade_product(parent) ==
    LET found == find(parent, <<"ram:SpecifiedTradeProduct">>)
        el == found[1]
    IN  IF found = None
        THEN InvalidXMLError("SpecifiedTradeProduct element not found")
        ELSE Gather(<<"global_id", "seller_id", "buyer_id", "name",
                      "description", "characteristics", "classifications",
                      "origin_country">>,
          [global_id |-> _find_id_optional(el, <<"ram:GlobalID">>, FALSE),
           seller_id |-> _find_text_optional(el, <<"ram:SellerAssignedID">>),
           buyer_id |-> _find_text_optional(el, <<"ram:BuyerAssignedID">>),
           name |-> _find_text(el, <<"ram:Name">>),
           description |-> _find_text_optional(el, <<"ram:Description">>),
           characteristics |->
              ForEach(findall(el, <<"ram:ApplicableProductCharacteristic">>),
                      LAMBDA pc_el : _parse_product_characteristic(pc_el)),
           classifications |->
              ForEach(findall(el, <<"ram:DesignatedProductClassification">>),
                      LAMBDA pc_el : _parse_product_classification(pc_el)),
           origin_country |->
              _find_text_optional(el, <<"ram:OriginCountry", "ram:ID">>)])

\* The result is the tuple (gross price, allowance or charge), each None or
\* a value; the gross price is the tuple (amount, quantity or None).
_parse_gross_line_price(parent, default_currency) ==
    LET found == find(parent, <<"ram:GrossPriceProductTradePrice">>)
        el == found[1]
        allowance_el == find(el, <<"ram:AppliedTradeAllowanceCharge">>)
    IN  IF found = None THEN Return(<<None, None>>)
        ELSE Bind(_find_amount(el, <<"ram:ChargeAmount">>, default_currency),
          LAMBDA gross_amount :
            Bind(_find_optional_quantity_optional(el, <<"ram:BasisQuantity">>),
              LAMBDA gross_quantity :
                IF allowance_el = None
                THEN Return(<<Some(<<gross_amount, gross_quantity>>), None>>)
                ELSE Bind(_parse_line_allowance_or_charge(allowance_el[1],
                                                          default_currency),
                  LAMBDA allowance :
                    IF allowance.reason # None
                    THEN InvalidProfileError("EN16931",
                        "Reason element is not supported in AppliedTradeAllowanceCharge")
                    ELSE Return(<<Some(<<gross_amount, gross_quantity>>),
                                  Some(allowance)>>))))

_parse_line_agreement(parent, default_currency) ==
    LET found == find(parent, <<"ram:SpecifiedLineTradeAgreement">>)
        el == found[1]
        net_price_el == find(el, <<"ram:NetPriceProductTradePrice">>)
    IN  IF found = None
        THEN InvalidXMLError("SpecifiedLineTradeAgreement element not found")
        ELSE Bind(_parse_gross_line_price(el, default_currency),
          LAMBDA gross :
            IF net_price_el = None
            THEN InvalidXMLError("NetPriceProductTradePrice element not found")
            ELSE Bind(
              Gather(<<"net_price", "basis_quantity", "buyer_order_line_id">>,
                [net_price |-> _find_amount(net_price_el[1], <<"ram:ChargeAmount">>,
                                            default_currency),
                 basis_quantity |->
                    _find_optional_quantity_optional(el, <<"ram:BasisQuantity">>),
                 buyer_order_line_id |-> _find_text_optional(el,
                    <<"ram:BuyerOrderReferencedDocument", "ram:LineID">>)]),
              LAMBDA f :
                Return(Merge(f, [gross_unit_price |-> gross[1],
                                 gross_allowance_or_charge |-> gross[2]]))))

_parse_line_delivery(parent) ==
    LET el == find(parent, <<"ram:SpecifiedLineTradeDelivery">>)
    IN  IF el = None
        THEN InvalidXMLError("SpecifiedLineTradeDelivery element not found")
        ELSE Bind(_find_quantity(el[1], <<"ram:BilledQuantity">>),
                  LAMBDA q : Return([billed_quantity |-> q]))

_parse_line_summation(parent, default_currency) ==
    LET el == find(parent, <<"ram:SpecifiedTradeSettlementLineMonetarySummation">>)
    IN  IF el = None
        THEN InvalidXMLError(
            "SpecifiedTradeSettlementLineMonetarySummation element not found")
        ELSE _find_amount(el[1], <<"ram:LineTotalAmount">>, default_currency)

_parse_line_settlement(parent, default_currency) ==
    LET found == find(parent, <<"ram:SpecifiedLineTradeSettlement">>)
        el == found[1]
        tax_el == find(el, <<"ram:ApplicableTradeTax">>)
        ref_doc_el == find(el, <<"ram:AdditionalReferencedDocument">>)
    IN  IF found = None
        THEN InvalidXMLError("SpecifiedLineTradeSettlement element not found")
        ELSE IF tax_el = None
        THEN InvalidXMLError("ApplicableTradeTax element not found")
        ELSE Bind(
          Gather(<<"tax", "allowances", "total_amount", "billing_period",
                   "doc_ref", "trade_account_id">>,
            [tax |-> _parse_tax_simple(tax_el[1]),
             allowances |->
                ForEach(findall(el, <<"ram:SpecifiedTradeAllowanceCharge">>),
                        LAMBDA ac_el :
                          _parse_line_allowance_or_charge(ac_el, default_currency)),
             total_amount |-> _parse_line_summation(el, default_currency),
             billing_period |-> _parse_billing_period_optional(el),
             doc_ref |->
                IF ref_doc_el = None THEN Return(None)
                ELSE Bind(_parse_doc_ref(ref_doc_el[1]),
                          LAMBDA r : Return(Some(r))),
             trade_account_id |-> _find_text_optional(el,
                <<"ram:ReceivableSpecifiedTradeAccountingAccount", "ram:ID">>)]),
          LAMBDA f :
            Return([tax_category |-> f.tax[1], tax_rate |-> f.tax[2],
                    allowances |->
                       SelectSeq(f.allowances, LAMBDA a : a.cls = "LineAllowance"),
                    charges |->
                       SelectSeq(f.allowances, LAMBDA c : c.cls = "LineCharge"),
                    total_amount |-> f.total_amount,
                    billing_period |-> f.billing_period,
                    doc_ref |-> f.doc_ref,
                    trade_account_id |-> f.trade_account_id]))

\* The five parts of a line item element, read in this order.
LineParts(el, default_currency) ==
    Gather(<<"doc", "product", "agreement", "delivery", "settlement">>,
      [doc |-> _parse_line_document(el),
       product |-> _parse_trade_product(el),
       agreement |-> _parse_line_agreement(el, default_currency),
       delivery |-> _parse_line_delivery(el),
       settlement |-> _parse_line_settlement(el, default_currency)])

\* The arguments _parse_line_item passes to LineItem(...).
LineItemOf(p) ==
    [cls |-> "LineItem", id |-> p.doc.id, name |-> p.product.name,
     net_price |-> p.agreement.net_price,
     billed_quantity |-> p.delivery.billed_quantity,
     billed_total |-> p.settlement.total_amount,
     tax_rate |-> p.settlement.tax_rate,
     tax_category |-> p.settlement.tax_category,
     global_id |-> p.product.global_id,
     basis_quantity |-> p.agreement.basis_quantity,
     allowances |-> p.settlement.allowances,
     charges |-> p.settlement.charges]

\* The chain below with InvalidXMLError raised in place of
\* InvalidProfileError.
FirstProfileError_as_xml_error(name, rules) ==
    IF IsErr(FirstRaise(rules))
    THEN InvalidXMLError(FirstRaise(rules).msg)
    ELSE NoExc

\* The chain of "if ...: raise InvalidProfileError(name, msg)" statements:
\* rules is a sequence of <<cond, msg>>.
FirstProfileError(name, rules) ==
    IF IsErr(FirstRaise(rules))
    THEN InvalidProfileError(name, FirstRaise(rules).msg)
    ELSE NoExc

_parse_line_item(el, default_currency) ==
    Bind(LineParts(el, default_currency),
      LAMBDA p :
        Bind(FirstProfileError("BASIC", <<
            <<p.doc.note # None,
              "Included notes are not supported in BASIC profile line items">>,
            <<p.product.seller_id # None,
              "SellerAssignedID element is not supported in BASIC profile line items">>,
            <<p.product.buyer_id # None,
              "BuyerAssignedID element is not supported in BASIC profile line items">>,
            <<p.product.description # None,
              "Description element is not supported in BASIC profile line items">>,
            <<Len(p.product.characteristics) > 0,
              "ApplicableProductCharacteristic element is not supported in BASIC profile line items">>,
            <<Len(p.product.classifications) > 0,
              "DesignatedProductClassification element is not supported in BASIC profile line items">>,
            <<p.product.origin_country # None,
              "OriginCountry element is not supported in BASIC profile line items">>,
            <<p.agreement.buyer_order_line_id # None,
              "BuyerOrderReferencedDocument element is not supported in BASIC profile line items">>,
            <<p.agreement.gross_unit_price # None,
              "GrossPriceProductTradePrice element is not supported in BASIC profile line items">>,
            <<p.settlement.billing_period # None,
              "BillingSpecifiedPeriod is not supported in BASIC profile line items">>,
            <<p.settlement.doc_ref # None,
              "AdditionalReferencedDocument element is not supported in BASIC profile line items">>,
            <<p.settlement.trade_account_id # None,
              "ReceivableSpecifiedTradeAccountingAccount element is not supported in BASIC profile line items">>
          >>),
          LAMBDA ok : Return(LineItemOf(p))))

\* gross_allowance_or_charge is not passed on: the line item keeps the
\* default None.
_parse_en16931_line_item(el, default_currency) ==
    Bind(LineParts(el, default_currency),
      LAMBDA p :
        EN16931LineItem(LineItemOf(p),
          [gross_unit_price |-> p.agreement.gross_unit_price,
           note |-> p.doc.note,
           seller_assigned_id |-> p.product.seller_id,
           buyer_assigned_id |-> p.product.buyer_id,
           description |-> p.product.description,
           product_characteristics |-> p.product.characteristics,
           product_classifications |-> p.product.classifications,
           origin_country |->
              IF p.product.origin_country = None THEN None
              ELSE Some(Chars(p.product.origin_country[1])),
           buyer_order_line_id |-> p.agreement.buyer_order_line_id,
           billing_period |-> p.settlement.billing_period,
           doc_ref |-> p.settlement.doc_ref,
           trade_account_id |-> p.settlement.trade_account_id]))

_parse_line_items(parent, default_currency) ==
    LET el == find(parent, <<"rsm:SupplyChainTradeTransaction">>)
    IN  IF el = None
        THEN InvalidXMLError("SupplyChainTradeTransaction element not found")
        ELSE ForEach(findall(el[1], <<"ram:IncludedSupplyChainTradeLineItem">>),
                     LAMBDA li_el : _parse_line_item(li_el, default_currency))

_parse_en16931_line_items(parent, default_currency) ==
    LET el == find(parent, <<"rsm:SupplyChainTradeTransaction">>)
    IN  IF el = None
        THEN InvalidXMLError("SupplyChainTradeTransaction element not found")
        ELSE ForEach(findall(el[1], <<"ram:IncludedSupplyChainTradeLineItem">>),
                     LAMBDA li_el : _parse_en16931_line_item(li_el, default_currency))

(***************************************************************************)
(* parse.py: the document header.                                          *)
(***************************************************************************)
\* business_process_el.text is passed on as it is: None for an element
\* without text.
_parse_doc_ctx(tree) ==
    LET doc_ctx == find(tree, <<"rsm:ExchangedDocumentContext">>)
        business_process_el ==
            find(doc_ctx[1],
                 <<"ram:BusinessProcessSpecifiedDocumentContextParameter",
                   "ram:ID">>)
    IN  IF doc_ctx = None
        THEN InvalidXMLError("ExchangedDocumentContext element not found")
        ELSE Return([business_process_id |->
                        IF business_process_el # None
                        THEN business_process_el[1].text ELSE None])

_parse_doc(tree) ==
    LET doc_el == find(tree, <<"rsm:ExchangedDocument">>)
    IN  IF doc_el = None THEN InvalidXMLError("ExchangedDocument element not found")
        ELSE Bind(_find_text(doc_el[1], <<"ram:ID">>),
          LAMBDA id :
            Bind(_find_text(doc_el[1], <<"ram:TypeCode">>),
              LAMBDA type_code_s :
                Bind(IntCode(type_code_s, DocumentTypeCode),
                  LAMBDA type_code :
                    Bind(_find_date(doc_el[1], <<"ram:IssueDateTime">>),
                      LAMBDA dt :
                        Bind(ForEach(findall(doc_el[1], <<"ram:IncludedNote">>),
                                     LAMBDA el : _parse_note(el)),
                          LAMBDA notes :
                            Return([id |-> id, type_code |-> type_code,
                                    issue_date |-> dt, notes |-> notes]))))))

\* The tuple (ID, Name) of SpecifiedProcuringProject, or None.
ProcuringProject(el) ==
    LET project_el == find(el, <<"ram:SpecifiedProcuringProject">>)
    IN  IF project_el = None THEN Return(None)
        ELSE Bind(_find_text(project_el[1], <<"ram:ID">>),
               LAMBDA id :
                 Bind(_find_text(project_el[1], <<"ram:Name">>),
                      LAMBDA name : Return(Some(<<id, name>>))))

_parse_agreement(parent) ==
    LET found == find(parent, <<"ram:ApplicableHeaderTradeAgreement">>)
        el == found[1]
    IN  IF found = None
        THEN InvalidXMLError("ApplicableHeaderTradeAgreement element not found")
        ELSE Gather(<<"buyer_reference", "seller", "buyer", "seller_order_id",
                      "buyer_order_id", "seller_tax_representative",
                      "contract_id", "referenced_docs", "procuring_project">>,
          [buyer_reference |-> _find_text_optional(el, <<"ram:BuyerReference">>),
           seller |-> _parse_trade_party(el, <<"ram:SellerTradeParty">>),
           buyer |-> _parse_trade_party(el, <<"ram:BuyerTradeParty">>),
           seller_order_id |->
              _find_ref_doc_id_optional(el, <<"ram:SellerOrderReferencedDocument">>),
           buyer_order_id |->
              _find_ref_doc_id_optional(el, <<"ram:BuyerOrderReferencedDocument">>),
           seller_tax_representative |->
              _parse_trade_party_optional(el,
                  <<"ram:SellerTaxRepresentativeTradeParty">>),
           contract_id |->
              _find_ref_doc_id_optional(el, <<"ram:ContractReferencedDocument">>),
           referenced_docs |->
              ForEach(findall(el, <<"ram:AdditionalReferencedDocument">>),
                      LAMBDA doc_el : _parse_reference_document(doc_el)),
           procuring_project |-> ProcuringProject(el)])

_parse_delivery_date(parent) ==
    LET el == find(parent, <<"ram:ActualDeliverySupplyChainEvent">>)
    IN  IF el = None THEN Return(None)
        ELSE Bind(_find_date(el[1], <<"ram:OccurrenceDateTime">>),
                  LAMBDA d : Return(Some(d)))

_parse_delivery(parent) ==
    LET found == find(parent, <<"ram:ApplicableHeaderTradeDelivery">>)
        el == found[1]
    IN  IF found = None
        THEN InvalidXMLError("ApplicableHeaderTradeDelivery element not found")
        ELSE Gather(<<"ship_to", "delivery_date", "despatch_advice_id",
                      "receiving_advice_id">>,
          [ship_to |-> _parse_trade_party_optional(el, <<"ram:ShipToTradeParty">>),
           delivery_date |-> _parse_delivery_date(el),
           despatch_advice_id |->
              _find_ref_doc_id_optional(el,
                  <<"ram:DespatchAdviceReferencedDocument">>),
           receiving_advice_id |->
              _find_ref_doc_id_optional(el,
                  <<"ram:ReceivingAdviceReferencedDocument">>)])

\* The loop over ReceivableSpecifiedTradeAccountingAccount searches the
\* children of parent, the SupplyChainTradeTransaction element, and not
\* those of the ApplicableHeaderTradeSettlement element el.
_parse_settlement(parent) ==
    LET found == find(parent, <<"ram:ApplicableHeaderTradeSettlement">>)
        el == found[1]
    IN  IF found = None
        THEN InvalidXMLError("ApplicableHeaderTradeSettlement element not found")
        ELSE Bind(_find_text(el, <<"ram:InvoiceCurrencyCode">>),
          LAMBDA currency_code :
            Bind(
              Gather(<<"creditor_reference_id", "payment_reference",
                       "tax_currency_code", "payee", "payment_means", "tax",
                       "billing_period", "allowances", "payment_terms",
                       "summation", "preceding_invoices",
                       "receiver_accounting_ids">>,
                [creditor_reference_id |->
                    _find_text_optional(el, <<"ram:CreditorReferenceID">>),
                 payment_reference |->
                    _find_text_optional(el, <<"ram:PaymentReference">>),
                 tax_currency_code |->
                    _find_text_optional(el, <<"ram:TaxCurrencyCode">>),
                 payee |->
                    _parse_trade_party_optional(el, <<"ram:PayeeTradeParty">>),
                 payment_means |->
                    ForEach(findall(el,
                              <<"ram:SpecifiedTradeSettlementPaymentMeans">>),
                            LAMBDA pay_el : _parse_payment_means(pay_el)),
                 tax |->
                    ForEach(findall(el, <<"ram:ApplicableTradeTax">>),
                            LAMBDA tax_el : _parse_tax(tax_el, Chars(currency_code))),
                 billing_period |-> _parse_billing_period_optional(el),
                 allowances |->
                    ForEach(findall(el, <<"ram:SpecifiedTradeAllowanceCharge">>),
                            LAMBDA ac_el :
                              _parse_allowance_or_charge(ac_el,
                                                         Chars(currency_code))),
                 payment_terms |-> _parse_payment_terms(el),
                 summation |-> _parse_summation(el, Chars(currency_code)),
                 preceding_invoices |-> _parse_referenced_invoices(el),
                 receiver_accounting_ids |->
                    ForEach(findall(parent,
                              <<"ram:ReceivableSpecifiedTradeAccountingAccount">>),
                            LAMBDA acc_el : _find_text(acc_el, <<"ram:ID">>))]),
              LAMBDA f :
                Return(Merge(f,
                  [currency_code |-> Chars(currency_code),
                   allowances |->
                      SelectSeq(f.allowances,
                                LAMBDA a : a.cls = "DocumentAllowance"),
                   charges |->
                      SelectSeq(f.allowances,
                                LAMBDA c : c.cls = "DocumentCharge")]))))

\* The result has the fields agreement, delivery and settlement.
_parse_transaction(tree) ==
    LET el == find(tree, <<"rsm:SupplyChainTradeTransaction">>)
    IN  IF el = None
        THEN InvalidXMLError("SupplyChainTradeTransaction element not found")
        ELSE Gather(<<"agreement", "delivery", "settlement">>,
                    [agreement |-> _parse_agreement(el[1]),
                     delivery |-> _parse_delivery(el[1]),
                     settlement |-> _parse_settlement(el[1])])

(***************************************************************************)
(* parse.py: the four profile parsers and parse_xml.                       *)
(***************************************************************************)
_minimum_args(doc_ctx, doc_info, agreement, settlement) ==
    [invoice_number |-> doc_info.id,
     type_code |-> doc_info.type_code,
     invoice_date |-> doc_info.issue_date,
     seller |-> agreement.seller,
     buyer |-> agreement.buyer,
     currency_code |-> settlement.currency_code,
     line_total_amount |-> settlement.summation.line_total,
     tax_basis_total_amount |-> settlement.summation.tax_basis_total,
     tax_total_amounts |-> settlement.summation.tax_totals,
     grand_total_amount |-> settlement.summation.grand_total,
     due_payable_amount |-> settlement.summation.due_payable_amount,
     business_process_id |-> doc_ctx.business_process_id,
     buyer_reference |-> agreement.buyer_reference,
     buyer_order_id |-> agreement.buyer_order_id]

_basic_wl_args(doc_info, agreement, delivery, settlement) ==
    [tax |-> settlement.tax,
     charge_total_amount |-> settlement.summation.charge_total,
     allowance_total_amount |-> settlement.summation.allowance_total,
     prepaid_amount |-> settlement.summation.prepaid_amount,
     payee |-> settlement.payee,
     delivery_date |-> delivery.delivery_date,
     billing_period |-> settlement.billing_period,
     allowances |-> settlement.allowances,
     charges |-> settlement.charges,
     notes |-> doc_info.notes,
     seller_tax_representative |-> agreement.seller_tax_representative,
     contract_id |-> agreement.contract_id,
     ship_to |-> delivery.ship_to,
     despatch_advice_id |-> delivery.despatch_advice_id,
     sepa_reference |-> settlement.creditor_reference_id,
     payment_reference |-> settlement.payment_reference,
     payment_means |-> settlement.payment_means,
     payment_terms |-> settlement.payment_terms,
     preceding_invoices |-> settlement.preceding_invoices,
     receiver_accounting_ids |-> settlement.receiver_accounting_ids]

_basic_args(line_items) == [line_items |-> line_items]

_en16931_args(agreement, delivery, settlement) ==
    [receiving_advice_id |-> delivery.receiving_advice_id,
     rounding_amount |-> settlement.summation.rounding_amount,
     seller_order_id |-> agreement.seller_order_id,
     procuring_project |-> agreement.procuring_project,
     tax_currency_code |-> settlement.tax_currency_code,
     referenced_docs |-> agreement.referenced_docs]

\* doc_ctx, doc_info and the transaction of a tree, read in this order.
Header(tree) ==
    Gather(<<"doc_ctx", "doc_info", "transaction">>,
           [doc_ctx |-> _parse_doc_ctx(tree),
            doc_info |-> _parse_doc(tree),
            transaction |-> _parse_transaction(tree)])

_parse_minimum_invoice(tree) ==
    Bind(Header(tree),
      LAMBDA h :
        LET doc_info == h.doc_info
            agreement == h.transaction.agreement
            delivery == h.transaction.delivery
            settlement == h.transaction.settlement
        IN  Bind(FirstProfileError("MINIMUM", <<
            <<Len(doc_info.notes) > 0,
              "Included notes are not supported in MINIMUM profile">>,
            <<agreement.seller_tax_representative # None,
              "SellerTaxRepresentativeTradeParty element is not supported in MINIMUM profile">>,
            <<agreement.contract_id # None,
              "ContractReferencedDocument element is not supported in MINIMUM profile">>,
            <<agreement.seller_order_id # None,
              "SellerOrderReferencedDocument element is not supported in MINIMUM profile">>,
            <<Len(agreement.referenced_docs) > 0,
              "AdditionalReferencedDocument element is not supported in MINIMUM profile">>,
            <<agreement.procuring_project # None,
              "SpecifiedProcuringProject element is not supported in MINIMUM profile">>,
            <<delivery.ship_to # None,
              "ShipToTradeParty element is not supported in MINIMUM profile">>,
            <<delivery.delivery_date # None,
              "Delivery date is not supported in MINIMUM profile">>,
            <<delivery.despatch_advice_id # None,
              "DespatchAdviceReferencedDocument element is not supported in MINIMUM profile">>,
            <<delivery.receiving_advice_id # None,
              "ReceivingAdviceReferencedDocument element is not supported in MINIMUM profile">>,
            <<settlement.creditor_reference_id # None,
              "CreditorReferenceID element is not supported in MINIMUM profile">>,
            <<settlement.payment_reference # None,
              "PaymentReference element is not supported in MINIMUM profile">>,
            <<settlement.tax_currency_code # None,
              "TaxCurrencyCode element is not supported in MINIMUM profile">>,
            <<settlement.payee # None,
              "PayeeTradeParty element is not supported in MINIMUM profile">>,
            <<Len(settlement.payment_means) > 0,
              "SpecifiedTradeSettlementPaymentMeans element is not supported in MINIMUM profile">>,
            <<Len(settlement.tax) > 0,
              "ApplicableTradeTax element is not supported in MINIMUM profile">>,
            <<settlement.billing_period # None,
              "Billing period is not supported in MINIMUM profile">>,
            <<Len(settlement.allowances) > 0 \/ Len(settlement.charges) > 0,
              "SpecifiedTradeAllowanceCharge element is not supported in MINIMUM profile">>,
            <<settlement.payment_terms # None,
              "SpecifiedTradePaymentTerms element is not supported in MINIMUM profile">>,
            <<settlement.summation.charge_total # None,
              "ChargeTotalAmount element is not supported in MINIMUM profile">>,
            <<settlement.summation.allowance_total # None,
              "AllowanceTotalAmount element is not supported in MINIMUM profile">>,
            <<settlement.summation.prepaid_amount # None,
              "PrepaidAmount element is not supported in MINIMUM profile">>,
            <<settlement.summation.rounding_amount # None,
              "RoundingAmount element is not supported in MINIMUM profile">>,
            <<Len(settlement.preceding_invoices) > 0,
              "InvoiceReferencedDocument element is not supported in MINIMUM profile">>,
            <<Len(settlement.receiver_accounting_ids) > 0,
              "ReceivableSpecifiedTradeAccountingAccount element is not supported in MINIMUM profile">>
          >>),
          LAMBDA ok :
            NewInvoice("MinimumInvoice",
                       _minimum_args(h.doc_ctx, doc_info, agreement, settlement))))

\* The six checks _parse_basic_wl_invoice and _parse_basic_invoice share,
\* with the profile name each of them uses.
BasicProfileRules(name, agreement, delivery, settlement) ==
    FirstProfileError(name, <<
      <<agreement.seller_order_id # None,
        "SellerOrderReferencedDocument element is not supported">>,
      <<Len(agreement.referenced_docs) > 0,
        "AdditionalReferencedDocument element is not supported">>,
      <<agreement.procuring_project # None,
        "SpecifiedProcuringProject element is not supported">>,
      <<delivery.receiving_advice_id # None,
        "ReceivingAdviceReferencedDocument element is not supported">>,
      <<settlement.tax_currency_code # None,
        "TaxCurrencyCode element is not supported">>,
      <<settlement.summation.rounding_amount # None,
        "RoundingAmount element is not supported">>
    >>)

_parse_basic_wl_invoice(tree) ==
    Bind(Header(tree),
      LAMBDA h :
        LET t == h.transaction
        IN  Bind(BasicProfileRules("BASIC WL", t.agreement, t.delivery,
                                   t.settlement),
              LAMBDA ok :
                NewInvoice("BasicWLInvoice",
                  Merge(_minimum_args(h.doc_ctx, h.doc_info, t.agreement,
                                      t.settlement),
                        _basic_wl_args(h.doc_info, t.agreement, t.delivery,
                                       t.settlement)))))

_parse_basic_invoice(tree) ==
    Bind(Header(tree),
      LAMBDA h :
        LET t == h.transaction
        IN  Bind(_parse_line_items(tree, t.settlement.currency_code),
              LAMBDA line_items :
                Bind(BasicProfileRules("BASIC", t.agreement, t.delivery,
                                       t.settlement),
                  LAMBDA ok :
                    NewInvoice("BasicInvoice",
                      Merge(Merge(_minimum_args(h.doc_ctx, h.doc_info,
                                                t.agreement, t.settlement),
                                  _basic_wl_args(h.doc_info, t.agreement,
                                                 t.delivery, t.settlement)),
                            _basic_args(line_items))))))

_parse_en16931_invoice(tree) ==
    Bind(Header(tree),
      LAMBDA h :
        LET t == h.transaction
        IN  Bind(_parse_en16931_line_items(tree, t.settlement.currency_code),
              LAMBDA line_items :
                NewInvoice("EN16931Invoice",
                  Merge(Merge(Merge(_minimum_args(h.doc_ctx, h.doc_info,
                                                  t.agreement, t.settlement),
                                    _basic_wl_args(h.doc_info, t.agreement,
                                                   t.delivery, t.settlement)),
                              _basic_args(line_items)),
                        _en16931_args(t.agreement, t.delivery, t.settlement)))))

\* An XML text is the record [well_formed, root]: whether ElementTree can
\* parse it, and the root element it then yields.
_parse_tree(xml) ==
    IF ~xml.well_formed THEN Raise("XMLParseError", "not well-formed")
    ELSE Return(xml.root)

ProfileIdPath ==
    <<"rsm:ExchangedDocumentContext",
      "ram:GuidelineSpecifiedDocumentContextParameter", "ram:ID">>

\* parse_xml with the branches of BASIC WL and BASIC exchanged.
parse_xml_exchanged_branches(xml) ==
    Bind(_parse_tree(xml),
      LAMBDA tree :
        LET id_el == find(tree, ProfileIdPath)
        IN  IF tree.tag # "rsm:CrossIndustryInvoice"
            THEN Raise("NotFacturXError", "Root element is not a Factur-X invoice")
            ELSE IF id_el = None
            THEN Raise("NotFacturXError", "Profile ID element not found")
            ELSE IF id_el[1].text = Some(URN_MINIMUM_PROFILE)
            THEN _parse_minimum_invoice(tree)
            ELSE IF id_el[1].text = Some(URN_BASIC_WL_PROFILE)
            THEN _parse_basic_invoice(tree)
            ELSE IF id_el[1].text = Some(URN_BASIC_PROFILE)
            THEN _parse_basic_wl_invoice(tree)
            ELSE IF id_el[1].text = Some(URN_EN16931_PROFILE)
            THEN _parse_en16931_invoice(tree)
            ELSE Raise("UnsupportedProfileError", "Unsupported profile"))

\* parse_xml with the search for the profile ID before the test of the root.
parse_xml_profile_id_first(xml) ==
    Bind(_parse_tree(xml),
      LAMBDA tree :
        LET id_el == find(tree, ProfileIdPath)
        IN  IF id_el = None
            THEN Raise("NotFacturXError", "Profile ID element not found")
            ELSE IF id_el[1].text \notin
                      {Some(URN_MINIMUM_PROFILE), Some(URN_BASIC_WL_PROFILE),
                       Some(URN_BASIC_PROFILE), Some(URN_EN16931_PROFILE)}
            THEN Raise("UnsupportedProfileError", "Unsupported profile")
            ELSE IF tree.tag # "rsm:CrossIndustryInvoice"
            THEN Raise("NotFacturXError", "Root element is not a Factur-X invoice")
            ELSE IF id_el[1].text = Some(URN_MINIMUM_PROFILE)
            THEN _parse_minimum_invoice(tree)
            ELSE IF id_el[1].text = Some(URN_BASIC_WL_PROFILE)
            THEN _parse_basic_wl_invoice(tree)
            ELSE IF id_el[1].text = Some(URN_BASIC_PROFILE)
            THEN _parse_basic_invoice(tree)
            ELSE _parse_en16931_invoice(tree))

parse_xml(xml) ==
    Bind(_parse_tree(xml),
      LAMBDA tree :
        LET id_el == find(tree, ProfileIdPath)
        IN  IF tree.tag # "rsm:CrossIndustryInvoice"
            THEN Raise("NotFacturXError", "Root element is not a Factur-X invoice")
            ELSE IF id_el = None
            THEN Raise("NotFacturXError", "Profile ID element not found")
            ELSE IF id_el[1].text = Some(URN_MINIMUM_PROFILE)
            THEN _parse_minimum_invoice(tree)
            ELSE IF id_el[1].text = Some(URN_BASIC_WL_PROFILE)
            THEN _parse_basic_wl_invoice(tree)
            ELSE IF id_el[1].text = Some(URN_BASIC_PROFILE)
            THEN _parse_basic_invoice(tree)
            ELSE IF id_el[1].text = Some(URN_EN16931_PROFILE)
            THEN _parse_en16931_invoice(tree)
            ELSE IF id_el[1].text = Some(URN_EXTENDED_PROFILE)
            THEN Raise("UnsupportedProfileError", "Unsupported profile: EXTENDED")
            ELSE IF id_el[1].text = Some(URN_XRECHNUNG_PROFILE)
            THEN Raise("UnsupportedProfileError", "Unsupported profile: XRECHNUNG")
            ELSE Raise("UnsupportedProfileError", "Unsupported profile"))

(***************************************************************************)
(* The sample documents test_parse.py reads: the XML form of the four      *)
(* sample invoices, with the shortened texts.                              *)
(***************************************************************************)
DateTime(tag, text) ==
    E(tag, <<TA("udt:DateTimeString", {<<"format", "102">>}, text)>>)

Registration(scheme, id) ==
    E("ram:SpecifiedTaxRegistration", <<TA("ram:ID", {<<"schemeID", scheme>>}, id)>>)

Context(urn) ==
    E("rsm:ExchangedDocumentContext",
      <<E("ram:GuidelineSpecifiedDocumentContextParameter", <<T("ram:ID", urn)>>)>>)

Note(content) == E("ram:IncludedNote", <<T("ram:Content", content)>>)

Address(post_code, lines, city) ==
    E("ram:PostalTradeAddress",
      <<T("ram:PostcodeCode", post_code)>> \o lines
      \o <<T("ram:CityName", city), T("ram:CountryID", "DE")>>)

TradeTax(calculated, basis, rate) ==
    E("ram:ApplicableTradeTax",
      <<T("ram:CalculatedAmount", calculated), T("ram:TypeCode", "VAT"),
        T("ram:BasisAmount", basis), T("ram:CategoryCode", "S"),
        T("ram:RateApplicablePercent", rate)>>)

Summation(amounts) ==
    E("ram:SpecifiedTradeSettlementHeaderMonetarySummation", amounts)

TaxTotal(text) == TA("ram:TaxTotalAmount", {<<"currencyID", "EUR">>}, text)

CrossIndustryInvoice(context, document, transaction) ==
    [well_formed |-> TRUE,
     root |-> E("rsm:CrossIndustryInvoice",
                <<context, E("rsm:ExchangedDocument", document),
                  E("rsm:SupplyChainTradeTransaction", transaction)>>)]

MINIMUM_Rechnung ==
    CrossIndustryInvoice(Context(URN_MINIMUM_PROFILE),
      <<T("ram:ID", "471102"), T("ram:TypeCode", "380"),
        DateTime("ram:IssueDateTime", "20200305")>>,
      <<E("ram:ApplicableHeaderTradeAgreement",
          <<E("ram:SellerTradeParty",
              <<T("ram:Name", "Lieferant GmbH"),
                E("ram:PostalTradeAddress", <<T("ram:CountryID", "DE")>>),
                Registration("FC", "201/113/40209"),
                Registration("VA", "DE123456789")>>),
            E("ram:BuyerTradeParty", <<T("ram:Name", "Kunden AG Frankreich")>>)>>),
        E("ram:ApplicableHeaderTradeDelivery", <<>>),
        E("ram:ApplicableHeaderTradeSettlement",
          <<T("ram:InvoiceCurrencyCode", "EUR"),
            Summation(<<T("ram:TaxBasisTotalAmount", "198.00"),
                        TaxTotal("37.62"),
                        T("ram:GrandTotalAmount", "235.62"),
                        T("ram:DuePayableAmount", "235.62")>>)>>)>>)

BASIC_WL_Einfach ==
    CrossIndustryInvoice(Context(URN_BASIC_WL_PROFILE),
      <<T("ram:ID", "TX-471102"), T("ram:TypeCode", "380"),
        DateTime("ram:IssueDateTime", "20191030"),
        Note("Rechnung"), Note("Taxiunternehmen"), Note("Unsere GLN")>>,
      <<E("ram:ApplicableHeaderTradeAgreement",
          <<E("ram:SellerTradeParty",
              <<T("ram:Name", "Taxiunternehmen TX GmbH"),
                Address("10369", <<T("ram:LineOne", "Lieferantenstrasse 20")>>,
                        "Berlin"),
                Registration("VA", "DE123456789")>>),
            E("ram:BuyerTradeParty",
              <<T("ram:Name", "Taxi-Gast AG Mitte"),
                Address("13351", <<T("ram:LineOne", "Hans Mustermann"),
                                   T("ram:LineTwo", "Kundenstrasse 15")>>,
                        "Berlin")>>)>>),
        E("ram:ApplicableHeaderTradeDelivery",
          <<E("ram:ActualDeliverySupplyChainEvent",
              <<DateTime("ram:OccurrenceDateTime", "20191029")>>)>>),
        E("ram:ApplicableHeaderTradeSettlement",
          <<T("ram:InvoiceCurrencyCode", "EUR"),
            TradeTax("1.18", "16.90", "7"),
            E("ram:SpecifiedTradePaymentTerms",
              <<DateTime("ram:DueDateDateTime", "20191129")>>),
            Summation(<<T("ram:LineTotalAmount", "16.90"),
                        T("ram:ChargeTotalAmount", "0.00"),
                        T("ram:AllowanceTotalAmount", "0.00"),
                        T("ram:TaxBasisTotalAmount", "16.90"),
                        TaxTotal("1.18"),
                        T("ram:GrandTotalAmount", "18.08"),
                        T("ram:DuePayableAmount", "18.08")>>)>>)>>)

\* A line item element: its ID, the children of its product, the children
\* of its agreement, the billed quantity, the tax rate and the line total.
LineItemElement(id, product, agreement, quantity, rate, total) ==
    E("ram:IncludedSupplyChainTradeLineItem",
      <<E("ram:AssociatedDocumentLineDocument", <<T("ram:LineID", id)>>),
        E("ram:SpecifiedTradeProduct", product),
        E("ram:SpecifiedLineTradeAgreement", agreement),
        E("ram:SpecifiedLineTradeDelivery",
          <<TA("ram:BilledQuantity", {<<"unitCode", "H87">>}, quantity)>>),
        E("ram:SpecifiedLineTradeSettlement",
          <<E("ram:ApplicableTradeTax",
              <<T("ram:TypeCode", "VAT"), T("ram:CategoryCode", "S"),
                T("ram:RateApplicablePercent", rate)>>),
            E("ram:SpecifiedTradeSettlementLineMonetarySummation",
              <<T("ram:LineTotalAmount", total)>>)>>)>>)

GTIN(id) == TA("ram:GlobalID", {<<"schemeID", "0160">>}, id)

NetPrice(text) ==
    E("ram:NetPriceProductTradePrice", <<T("ram:ChargeAmount", text)>>)

GrossPrice(text) ==
    E("ram:GrossPriceProductTradePrice", <<T("ram:ChargeAmount", text)>>)

BASIC_LineItem ==
    LineItemElement("1",
        <<GTIN("4012345001235"), T("ram:Name", "Trennblaetter A4")>>,
        <<NetPrice("9.90")>>, "20.0000", "19", "198.00")

BASIC_Einfach ==
    CrossIndustryInvoice(Context(URN_BASIC_PROFILE),
      <<T("ram:ID", "471102"), T("ram:TypeCode", "380"),
        DateTime("ram:IssueDateTime", "20200305"),
        Note("Rechnung"), Note("Lieferant GmbH"), Note("Unsere GLN")>>,
      <<BASIC_LineItem,
        E("ram:ApplicableHeaderTradeAgreement",
          <<E("ram:SellerTradeParty",
              <<T("ram:Name", "Lieferant GmbH"),
                Address("80333", <<T("ram:LineOne", "Lieferantenstrasse 20")>>,
                        "Muenchen"),
                Registration("FC", "201/113/40209"),
                Registration("VA", "DE123456789")>>),
            E("ram:BuyerTradeParty",
              <<T("ram:Name", "Kunden AG Mitte"),
                Address("69876", <<T("ram:LineOne", "Hans Muster"),
                                   T("ram:LineTwo", "Kundenstrasse 15")>>,
                        "Frankfurt")>>)>>),
        E("ram:ApplicableHeaderTradeDelivery",
          <<E("ram:ActualDeliverySupplyChainEvent",
              <<DateTime("ram:OccurrenceDateTime", "20200305")>>)>>),
        E("ram:ApplicableHeaderTradeSettlement",
          <<T("ram:InvoiceCurrencyCode", "EUR"),
            TradeTax("37.62", "198.00", "19.00"),
            E("ram:SpecifiedTradePaymentTerms",
              <<DateTime("ram:DueDateDateTime", "20200404")>>),
            Summation(<<T("ram:LineTotalAmount", "198.00"),
                        T("ram:ChargeTotalAmount", "0.00"),
                        T("ram:AllowanceTotalAmount", "0.00"),
                        T("ram:TaxBasisTotalAmount", "198.00"),
                        TaxTotal("37.62"),
                        T("ram:GrandTotalAmount", "235.62"),
                        T("ram:DuePayableAmount", "235.62")>>)>>)>>)

EN16931_Einfach ==
    CrossIndustryInvoice(Context(URN_EN16931_PROFILE),
      <<T("ram:ID", "471102"), T("ram:TypeCode", "380"),
        DateTime("ram:IssueDateTime", "20180305"),
        Note("Rechnung"),
        E("ram:IncludedNote", <<T("ram:Content", "Lieferant GmbH"),
                                T("ram:SubjectCode", "REG")>>)>>,
      <<LineItemElement("1",
            <<GTIN("4012345001235"), T("ram:SellerAssignedID", "TB100A4"),
              T("ram:Name", "Trennblaetter A4")>>,
            <<GrossPrice("9.9000"), NetPrice("9.9000")>>,
            "20.0000", "19.00", "198.00"),
        LineItemElement("2",
            <<GTIN("4000050986428"), T("ram:SellerAssignedID", "ARNR2"),
              T("ram:Name", "Joghurt Banane")>>,
            <<GrossPrice("5.5000"), NetPrice("5.5000")>>,
            "50.0000", "7.00", "275.00"),
        E("ram:ApplicableHeaderTradeAgreement",
          <<E("ram:SellerTradeParty",
              <<T("ram:ID", "549910"),
                TA("ram:GlobalID", {<<"schemeID", "0088">>}, "4000001123452"),
                T("ram:Name", "Lieferant GmbH"),
                Address("80333", <<T("ram:LineOne", "Lieferantenstrasse 20")>>,
                        "Muenchen"),
                Registration("FC", "201/113/40209"),
                Registration("VA", "DE123456789")>>),
            E("ram:BuyerTradeParty",
              <<T("ram:ID", "GE2020211"), T("ram:Name", "Kunden AG Mitte"),
                Address("69876", <<T("ram:LineOne", "Kundenstrasse 15")>>,
                        "Frankfurt")>>)>>),
        E("ram:ApplicableHeaderTradeDelivery",
          <<E("ram:ActualDeliverySupplyChainEvent",
              <<DateTime("ram:OccurrenceDateTime", "20180305")>>)>>),
        E("ram:ApplicableHeaderTradeSettlement",
          <<T("ram:InvoiceCurrencyCode", "EUR"),
            TradeTax("19.25", "275.00", "7.00"),
            TradeTax("37.62", "198.00", "19.00"),
            E("ram:SpecifiedTradePaymentTerms",
              <<T("ram:Description", "Zahlbar innerhalb 30 Tagen")>>),
            Summation(<<T("ram:LineTotalAmount", "473.00"),
                        T("ram:ChargeTotalAmount", "0.00"),
                        T("ram:AllowanceTotalAmount", "0.00"),
                        T("ram:TaxBasisTotalAmount", "473.00"),
                        TaxTotal("56.87"),
                        T("ram:GrandTotalAmount", "529.87"),
                        T("ram:TotalPrepaidAmount", "0.00"),
                        T("ram:DuePayableAmount", "529.87")>>)>>)>>)

SampleDocument(c) ==
    CASE c = "MinimumInvoice" -> MINIMUM_Rechnung
      [] c = "BasicWLInvoice" -> BASIC_WL_Einfach
      [] c = "BasicInvoice" -> BASIC_Einfach
      [] c = "EN16931Invoice" -> EN16931_Einfach

\* test_parse_invoice: each sample document parses to its sample invoice.
test_parse_invoice ==
    \A c \in InvoiceClasses :
        parse_xml(SampleDocument(c)) = NewInvoice(c, SampleKwargs(c))

(***************************************************************************)
(* generate.py. The module was written for an earlier model.py: it reads   *)
(* attributes that the classes of model.py no longer define and treats a   *)
(* Money as the tuple (amount, currency). An attribute read of a missing   *)
(* name raises AttributeError, a subscript of a Money raises TypeError.    *)
(* Each function returns the elements it adds to its parent.               *)
(***************************************************************************)
getattr(obj, name) ==
    IF name \in DOMAIN obj THEN Return(obj[name])
    ELSE Raise("AttributeError", name)

\* str(n) of an integer and xml_date(date) of a date with a four-digit year.
str(n) == ToString(n)

_date_element(name, date) ==
    E(name, <<TA("udt:DateTimeString", {<<"format", "102">>}, str(date))>>)

\* id[1] is the scheme, None when the ID has none: ElementTree cannot
\* serialize an attribute whose value is None.
_scheme_id_element(name, id) ==
    IF id[2] = None THEN Raise("TypeError", "cannot serialize None")
    ELSE Return(TA(name, {<<"schemeID", id[2][1]>>}, id[1]))

\* amount[1] and amount[0] of a Money.
_currency_element(name, amount, with_currency) ==
    Raise("TypeError", "'Money' object is not subscriptable")

_note_element(note) ==
    E("ram:IncludedNote",
      <<T("ram:Content", note.content)>>
      \o (IF note.subject_code # None
          THEN <<T("ram:SubjectCode", note.subject_code[1])>> ELSE <<>>))

\* The element of an optional text, or nothing.
Optional(name, text) == IF text = None THEN <<>> ELSE <<T(name, text[1])>>

_document_element(name, id) ==
    IF id = None THEN <<>> ELSE <<E(name, <<T("ram:IssuerAssignedID", id[1])>>)>>

\* The country code is stored as characters; the other texts as they are.
_address_element(address) ==
    E("ram:PostalTradeAddress",
      Optional("ram:PostcodeCode", address.post_code)
      \o Optional("ram:LineOne", address.line_one)
      \o Optional("ram:LineTwo", address.line_two)
      \o Optional("ram:LineThree", address.line_three)
      \o Optional("ram:CityName", address.city)
      \o <<Element("ram:CountryID", {}, Some(address.country_code), <<>>)>>
      \o Optional("ram:CountrySubDivisionName", address.country_subdivision))

\* The text of the email element is "mailto:" followed by the address.
_email_element(name, email_address) ==
    E(name, <<TA("ram:URIID", {<<"schemeID", "EM">>},
                 <<"mailto:", email_address>>)>>)

_generate_trade_party(name, party) ==
    Bind(ForEach(party.global_ids,
                 LAMBDA global_id : _scheme_id_element("ram:GlobalID", global_id)),
      LAMBDA global_ids :
        Bind(IF party.legal_id = None THEN Return(<<>>)
             ELSE Bind(_scheme_id_element("ram:ID", party.legal_id[1]),
                       LAMBDA el : Return(<<el>>)),
          LAMBDA legal_id :
            Return(E(name,
              [i \in 1..Len(party.ids) |-> T("ram:ID", party.ids[i])]
              \o global_ids
              \o Optional("ram:Name", party.name)
              \o Optional("ram:Description", party.description)
              \o (IF party.legal_id # None \/ party.trading_business_name # None
                  THEN <<E("ram:SpecifiedLegalOrganization",
                           legal_id \o Optional("ram:TradingBusinessName",
                                                party.trading_business_name))>>
                  ELSE <<>>)
              \o (IF party.address # None
                  THEN <<_address_element(party.address[1])>> ELSE <<>>)
              \o (IF party.email # None
                  THEN <<_email_element("ram:URIUniversalCommunication",
                                        party.email[1])>>
                  ELSE <<>>)
              \o (IF party.tax_number # None
                  THEN <<Registration("FC", party.tax_number[1])>> ELSE <<>>)
              \o (IF party.vat_id # None
                  THEN <<Registration("VA", party.vat_id[1])>> ELSE <<>>)))))

_generate_doc_context(invoice) ==
    Bind(getattr(invoice, "business_doc_ctx_uri"),
      LAMBDA uri :
        Return(E("rsm:ExchangedDocumentContext",
          (IF uri # None
           THEN <<E("ram:BusinessProcessSpecifiedDocumentContextParameter",
                    <<T("ram:ID", uri[1])>>)>>
           ELSE <<>>)
          \o <<E("ram:GuidelineSpecifiedDocumentContextParameter",
                 <<T("ram:ID", PROFILE_URN(invoice.cls))>>)>>)))

_generate_doc(invoice) ==
    Bind(IF issubclass(invoice.cls, "BasicWLInvoice")
         THEN getattr(invoice, "doc_notes") ELSE Return(<<>>),
      LAMBDA doc_notes :
        Return(E("rsm:ExchangedDocument",
          <<T("ram:ID", invoice.invoice_number),
            T("ram:TypeCode", str(invoice.type_code)),
            _date_element("ram:IssueDateTime", invoice.invoice_date)>>
          \o [i \in 1..Len(doc_notes) |-> _note_element(doc_notes[i])])))

\* The attribute reads of a function in the order of its statements: the
\* first name that obj lacks raises AttributeError.
ReadAll(obj, names) ==
    FirstErr([i \in 1..Len(names) |-> getattr(obj, names[i])])

\* The line item generators in the order of their calls, each with the first
\* statement of it that raises: an EN16931LineItem has no
\* buyer_order_ref_doc_id, the net price is a Money, and no line item has
\* total_allowance_charges.
_generate_line_item(line_item, index) ==
    Bind(IF line_item.global_id = None THEN Return(<<>>)
         ELSE Bind(_scheme_id_element("ram:GlobalID", line_item.global_id[1]),
                   LAMBDA el : Return(<<el>>)),
      LAMBDA global_id :
        Bind(FirstErr(<<
               IF isinstance_EN16931LineItem(line_item)
               THEN getattr(line_item, "buyer_order_ref_doc_id") ELSE NoExc,
               _currency_element("ram:ChargeAmount", line_item.net_price, TRUE),
               getattr(line_item, "total_allowance_charges"),
               _currency_element("ram:LineTotalAmount", line_item.billed_total,
                                 FALSE)>>),
          LAMBDA ok :
            Return(E("ram:IncludedSupplyChainTradeLineItem",
              <<E("ram:AssociatedDocumentLineDocument",
                  <<T("ram:LineID", str(index))>>),
                E("ram:SpecifiedTradeProduct",
                  global_id \o <<T("ram:Name", line_item.name)>>)>>))))

_generate_trade_agreement(invoice) ==
    LET wl == issubclass(invoice.cls, "BasicWLInvoice")
        en == issubclass(invoice.cls, "EN16931Invoice")
    IN  Bind(
      Gather(<<"seller", "buyer", "tax_representative", "reads">>,
        [seller |-> _generate_trade_party("ram:SellerTradeParty", invoice.seller),
         buyer |-> _generate_trade_party("ram:BuyerTradeParty", invoice.buyer),
         tax_representative |->
            IF wl /\ invoice.seller_tax_representative # None
            THEN _generate_trade_party("ram:SellerTaxRepresentativeTradeParty",
                                       invoice.seller_tax_representative[1])
            ELSE Return(NoElement),
         reads |-> ReadAll(invoice,
            (IF en THEN <<"seller_order_ref_doc_id">> ELSE <<>>)
            \o <<"buyer_order_ref_doc_id">>
            \o (IF wl THEN <<"contract_referenced_doc_id">> ELSE <<>>))]),
      LAMBDA f :
        Return(E("ram:ApplicableHeaderTradeAgreement",
          Optional("ram:BuyerReference", invoice.buyer_reference)
          \o <<f.seller, f.buyer>>
          \o (IF f.tax_representative = NoElement THEN <<>>
              ELSE <<f.tax_representative>>))))

\* The elements after ApplicableHeaderTradeDelivery are added to parent, the
\* transaction, and not to the delivery element.
_generate_delivery(invoice) ==
    LET wl == issubclass(invoice.cls, "BasicWLInvoice")
    IN  Bind(
      Gather(<<"ship_to", "reads">>,
        [ship_to |->
            IF wl /\ invoice.ship_to # None
            THEN _generate_trade_party("ram:ShipToTradeParty", invoice.ship_to[1])
            ELSE Return(NoElement),
         reads |-> ReadAll(invoice,
            IF wl THEN <<"despatch_advice_ref_doc_id",
                         "receiving_advice_ref_doc_id">>
            ELSE <<>>)]),
      LAMBDA f :
        Return(<<E("ram:ApplicableHeaderTradeDelivery", <<>>)>>
          \o (IF f.ship_to = NoElement THEN <<>> ELSE <<f.ship_to>>)
          \o (IF wl /\ invoice.delivery_date # None
              THEN <<E("ram:ActualDeliverySupplyChainEvent",
                       <<_date_element("ram:OccurrenceDateTime",
                                       invoice.delivery_date[1])>>)>>
              ELSE <<>>)))

\* line_total_amount is optional; tax_basis_total_amount is the first
\* amount that is always written, and tax_total_amount does not exist.
_generate_summation(invoice) ==
    Bind(FirstErr(<<
           IF invoice.line_total_amount # None
           THEN _currency_element("ram:LineTotalAmount",
                                  invoice.line_total_amount[1], FALSE)
           ELSE NoExc,
           _currency_element("ram:TaxBasisTotalAmount",
                             invoice.tax_basis_total_amount, FALSE),
           getattr(invoice, "tax_total_amount")>>),
      LAMBDA ok :
        Return(E("ram:SpecifiedTradeSettlementHeaderMonetarySummation", <<>>)))

_generate_settlement(invoice) ==
    LET wl == issubclass(invoice.cls, "BasicWLInvoice")
        en == issubclass(invoice.cls, "EN16931Invoice")
    IN  Bind(
      Gather(<<"payee", "taxes", "summation">>,
        [payee |->
            IF wl /\ invoice.payee # None
            THEN _generate_trade_party("ram:PayeeTradeParty", invoice.payee[1])
            ELSE Return(NoElement),
         taxes |->
            IF wl
            THEN FirstErr([i \in 1..Len(invoice.tax) |->
                    _currency_element("ram:CalculatedAmount",
                                      invoice.tax[i].calculated_amount, FALSE)])
            ELSE NoExc,
         summation |-> _generate_summation(invoice)]),
      LAMBDA f :
        Return(E("ram:ApplicableHeaderTradeSettlement",
          (IF wl THEN Optional("ram:CreditorReferenceID", invoice.sepa_reference)
                      \o Optional("ram:PaymentReference",
                                  invoice.payment_reference)
           ELSE <<>>)
          \o (IF en THEN Optional("ram:TaxCurrencyCode", invoice.tax_currency_code)
              ELSE <<>>)
          \o <<Element("ram:InvoiceCurrencyCode", {},
                       Some(invoice.currency_code), <<>>)>>
          \o (IF f.payee = NoElement THEN <<>> ELSE <<f.payee>>)
          \o <<f.summation>>)))

_generate_transaction(invoice) ==
    Bind(
      Gather(<<"line_items", "agreement", "delivery", "settlement">>,
        [line_items |->
            IF issubclass(invoice.cls, "BasicInvoice")
            THEN (IF Len(invoice.line_items) < 1
                  THEN Raise("AssertionError", "")
                  ELSE ForEach([i \in 1..Len(invoice.line_items) |->
                                    <<invoice.line_items[i], i>>],
                               LAMBDA p : _generate_line_item(p[1], p[2])))
            ELSE Return(<<>>),
         agreement |-> _generate_trade_agreement(invoice),
         delivery |-> _generate_delivery(invoice),
         settlement |-> _generate_settlement(invoice)]),
      LAMBDA f :
        Return(E("rsm:SupplyChainTradeTransaction",
                 f.line_items \o <<f.agreement>> \o f.delivery
                 \o <<f.settlement>>)))

\* The three parts are generated in this order; the result is the text of
\* the tree, which is well formed.
generate(invoice) ==
    Bind(_generate_doc_context(invoice),
      LAMBDA doc_ctx :
        Bind(_generate_doc(invoice),
          LAMBDA document :
            Bind(_generate_transaction(invoice),
              LAMBDA transaction :
                Return([well_formed |-> TRUE,
                        root |-> E("rsm:CrossIndustryInvoice",
                                   <<doc_ctx, document, transaction>>)]))))

(***************************************************************************)
(* Changes to a document before it is parsed. A change names the first     *)
(* element on a path from the root and sets its text or its tag, appends   *)
(* a child to it or removes its children of one tag; "truncate" leaves a   *)
(* text that is not well formed.                                           *)
(***************************************************************************)
SetText(path, text) ==
    [op |-> "text", path |-> path, tag |-> "", text |-> text, child |-> NoElement]

SetTag(path, tag) ==
    [op |-> "tag", path |-> path, tag |-> tag, text |-> None, child |-> NoElement]

AppendChild(path, child) ==
    [op |-> "append", path |-> path, tag |-> "", text |-> None, child |-> child]

RemoveChildren(path, tag) ==
    [op |-> "remove", path |-> path, tag |-> tag, text |-> None,
     child |-> NoElement]

Truncate ==
    [op |-> "truncate", path |-> <<>>, tag |-> "", text |-> None,
     child |-> NoElement]

Change(el, e) ==
    CASE e.op = "text" -> [el EXCEPT !.text = e.text]
      [] e.op = "tag" -> [el EXCEPT !.tag = e.tag]
      [] e.op = "append" -> [el EXCEPT !.children = Append(@, e.child)]
      [] e.op = "remove" ->
            [el EXCEPT !.children = SelectSeq(@, LAMBDA c : c.tag # e.tag)]

RECURSIVE ChangeAt(_, _, _)
ChangeAt(el, path, e) ==
    IF path = <<>> THEN Change(el, e)
    ELSE LET here == {i \in 1..Len(el.children) : el.children[i].tag = Head(path)}
             first == CHOOSE i \in here : \A j \in here : i <= j
         IN  IF here = {} THEN el
             ELSE [el EXCEPT !.children[first] = ChangeAt(@, Tail(path), e)]

ApplyEdit(xml, e) ==
    IF e.op = "truncate" THEN [xml EXCEPT !.well_formed = FALSE]
    ELSE [xml EXCEPT !.root = ChangeAt(@, e.path, e)]

ContextPath == <<"rsm:ExchangedDocumentContext">>

DocumentPath == <<"rsm:ExchangedDocument">>

TransactionPath == <<"rsm:SupplyChainTradeTransaction">>

AgreementPath == TransactionPath \o <<"ram:ApplicableHeaderTradeAgreement">>

SellerPath == AgreementPath \o <<"ram:SellerTradeParty">>

SettlementPath == TransactionPath \o <<"ram:ApplicableHeaderTradeSettlement">>

SummationPath ==
    SettlementPath \o <<"ram:SpecifiedTradeSettlementHeaderMonetarySummation">>

TaxRepresentative ==
    E("ram:SellerTaxRepresentativeTradeParty",
      <<T("ram:Name", "Steuerberater"),
        E("ram:PostalTradeAddress", <<T("ram:CountryID", "DE")>>),
        Registration("VA", "DE987654321")>>)

\* An additional document of type 916 with an attachment of the given text.
Attached(content) ==
    E("ram:AdditionalReferencedDocument",
      <<T("ram:IssuerAssignedID", "A-1"), T("ram:TypeCode", "916"),
        TA("ram:AttachmentBinaryObject",
           {<<"mimeCode", "text/csv">>, <<"filename", "a.csv">>}, content)>>)

ProfileTexts ==
    <<Some(URN_MINIMUM_PROFILE), Some(URN_BASIC_WL_PROFILE),
      Some(URN_BASIC_PROFILE), Some(URN_EN16931_PROFILE),
      Some(URN_EXTENDED_PROFILE), Some(URN_XRECHNUNG_PROFILE),
      Some("urn:example:other"), None>>

BillingPeriod(start, end) ==
    E("ram:BillingSpecifiedPeriod",
      <<DateTime("ram:StartDateTime", start), DateTime("ram:EndDateTime", end)>>)

LineSettlementPath ==
    TransactionPath
    \o <<"ram:IncludedSupplyChainTradeLineItem", "ram:SpecifiedLineTradeSettlement">>

LineAgreementPath ==
    TransactionPath
    \o <<"ram:IncludedSupplyChainTradeLineItem", "ram:SpecifiedLineTradeAgreement">>

\* An allowance or charge element of a line item: a
\* SpecifiedTradeAllowanceCharge of the line settlement or the
\* AppliedTradeAllowanceCharge of a gross price.
AllowanceCharge(tag, indicator, reason_code, reason) ==
    E(tag,
      <<E("ram:ChargeIndicator", <<T("ram:Indicator", indicator)>>),
        T("ram:ActualAmount", "0.00")>>
      \o (IF reason_code = None THEN <<>>
          ELSE <<T("ram:ReasonCode", reason_code[1])>>)
      \o (IF reason = None THEN <<>> ELSE <<T("ram:Reason", reason[1])>>))

SpecifiedAllowanceCharge(indicator, reason_code) ==
    AllowanceCharge("ram:SpecifiedTradeAllowanceCharge", indicator, reason_code,
                    None)

AppliedAllowance(reason) ==
    AllowanceCharge("ram:AppliedTradeAllowanceCharge", "false", None, reason)

MoreDocEdits ==
    <<AppendChild(SettlementPath, BillingPeriod("20200404", "20200305")),
      AppendChild(SellerPath, T("ram:GlobalID", "4000001123452")),
      SetText(SettlementPath \o <<"ram:InvoiceCurrencyCode">>, Some("USD")),
      AppendChild(SummationPath,
                  TA("ram:TaxTotalAmount", {<<"currencyID", "USD">>}, "0.00")),
      AppendChild(LineSettlementPath, SpecifiedAllowanceCharge("true", Some("41"))),
      AppendChild(LineSettlementPath, SpecifiedAllowanceCharge("false", Some("41"))),
      AppendChild(LineAgreementPath,
                  E("ram:GrossPriceProductTradePrice",
                    <<T("ram:ChargeAmount", "9.90"),
                      AppliedAllowance(Some("Rabatt"))>>)),
      AppendChild(LineAgreementPath \o <<"ram:GrossPriceProductTradePrice">>,
                  AppliedAllowance(Some("Rabatt"))),
      AppendChild(AgreementPath,
                  E("ram:SellerTaxRepresentativeTradeParty",
                    <<T("ram:Name", "Steuerberater"),
                      E("ram:PostalTradeAddress", <<T("ram:CountryID", "de")>>),
                      Registration("VA", "DE987654321")>>))>>

DocEdits ==
    <<Truncate,
      SetTag(<<>>, "rsm:Invoice"),
      RemoveChildren(ContextPath, "ram:GuidelineSpecifiedDocumentContextParameter")>>
    \o [i \in 1..Len(ProfileTexts) |-> SetText(ProfileIdPath, ProfileTexts[i])]
    \o <<AppendChild(TransactionPath, BASIC_LineItem),
         AppendChild(AgreementPath, TaxRepresentative),
         AppendChild(AgreementPath, E("ram:SellerTaxRepresentativeTradeParty", <<>>)),
         AppendChild(AgreementPath, Attached("QUJD")),
         AppendChild(AgreementPath, Attached("QUJ")),
         AppendChild(SellerPath,
            E("ram:URIUniversalCommunication",
              <<TA("ram:URIID", {<<"schemeID", "EM">>}, "info@example.com")>>)),
         AppendChild(SellerPath, T("ram:Description", "Lieferant")),
         SetText(SellerPath \o <<"ram:PostalTradeAddress", "ram:CountryID">>,
                 Some("de")),
         SetText(DocumentPath \o <<"ram:IssueDateTime", "udt:DateTimeString">>,
                 Some("20200230")),
         AppendChild(DocumentPath, Note("Hinweis")),
         AppendChild(SettlementPath,
            E("ram:ReceivableSpecifiedTradeAccountingAccount",
              <<T("ram:ID", "4711")>>)),
         SetText(SettlementPath \o <<"ram:InvoiceCurrencyCode">>, Some("eur")),
         SetText(SummationPath \o <<"ram:TaxBasisTotalAmount">>, Some("abc")),
         SetText(SettlementPath \o <<"ram:ApplicableTradeTax",
                                     "ram:RateApplicablePercent">>, Some("abc"))>>
    \o MoreDocEdits

(***************************************************************************)
(* Changes to the arguments of an invoice constructor before the call:     *)
(* another class, a field of the seller or the buyer, an allowance or      *)
(* charge added to the first line item.                                    *)
(***************************************************************************)
SetClass(c) ==
    [op |-> "class", cls |-> c, role |-> "", field |-> "", value |-> None]

SetPartyField(role, field, value) ==
    [op |-> "party", cls |-> "", role |-> role, field |-> field, value |-> value]

AddToLineItem(field, value) ==
    [op |-> "line", cls |-> "", role |-> "", field |-> field, value |-> value]

\* A keyword argument of the constructor, given or replaced.
SetField(field, value) ==
    [op |-> "field", cls |-> "", role |-> "", field |-> field, value |-> value]

\* A field of the first tax entry.
SetTaxField(field, value) ==
    [op |-> "tax", cls |-> "", role |-> "", field |-> field, value |-> value]

ApplyArgEdit(a, e) ==
    CASE e.op = "class" -> [a EXCEPT !.cls = e.cls]
      [] e.op = "party" -> [a EXCEPT !.kwargs[e.role][e.field] = e.value]
      [] e.op = "line" ->
            IF "line_items" \in DOMAIN a.kwargs /\ a.kwargs.line_items # <<>>
            THEN [a EXCEPT !.kwargs.line_items[1][e.field] = Append(@, e.value)]
            ELSE a
      [] e.op = "field" ->
            [a EXCEPT !.kwargs = Merge(@, [f \in {e.field} |-> e.value])]
      [] e.op = "tax" ->
            IF "tax" \in DOMAIN a.kwargs /\ a.kwargs.tax # <<>>
            THEN [a EXCEPT !.kwargs.tax[1][e.field] = e.value]
            ELSE a

\* PaymentMeans(PaymentMeansCode.SEPA_CREDIT_TRANSFER) with one more field.
Means(field, value) ==
    [PaymentMeansFields("58") EXCEPT ![field] = value]

\* Parties for the further roles: a payee with an address, a tax
\* representative without VAT ID, a ship-to party with a tax number.
PayeeWithAddress ==
    TradeParty(Some("Zahlungsempfaenger"), Some(PostalAddressFields(DE)))

RepresentativeWithoutVatId ==
    TradeParty(Some("Steuerberater"), Some(PostalAddressFields(DE)))

ShipToWithTaxNumber ==
    [TradeParty(Some("Lager"), None) EXCEPT !.tax_number = Some("201/113")]

MoreArgEdits ==
    <<SetPartyField("seller", "address", None),
      SetPartyField("buyer", "address", Some(PostalAddressFields(DE))),
      SetField("payee", Some(PayeeWithAddress)),
      SetField("seller_tax_representative", Some(RepresentativeWithoutVatId)),
      SetField("ship_to", Some(ShipToWithTaxNumber)),
      SetField("tax", <<>>),
      SetField("tax", basic_wl_einfach.tax),
      SetField("line_items", <<>>),
      SetField("line_total_amount", Some(Euro(19800, -2))),
      SetField("tax_total_amounts", <<Euro(100, -2), Euro(200, -2)>>),
      SetField("tax_total_amounts",
               <<Euro(100, -2), Euro(200, -2), Euro(300, -2)>>),
      SetField("receiver_accounting_ids", <<"4711", "4712">>),
      SetTaxField("tax_point_date", Some(20200305)),
      SetField("payment_means", <<Means("information", Some("Ueberweisung"))>>),
      SetField("payment_means",
               <<Means("card", Some(<<"4111", Some("M. Muster")>>))>>),
      SetField("payment_means",
               <<Means("payee_account",
                       Some([iban |-> Some("DE02120300000000202051"),
                             name |-> Some("Lieferant GmbH"),
                             bank_id |-> None]))>>),
      SetField("payment_means", <<Means("payee_bic", Some("BYLADEM1001"))>>),
      SetField("payment_terms",
               Some(PaymentTermsFields(Some("30 Tage netto"), None))),
      SetField("allowances",
               <<DocumentAllowanceOrCharge("DocumentAllowance", Euro(100, -2),
                                           Some(Dec(10, 0)), None)>>),
      SetField("charges",
               <<DocumentAllowanceOrCharge("DocumentCharge", Euro(100, -2),
                                           None, Some(Euro(1000, -2)))>>),
      SetField("billing_period", Some(<<20200201, 20200101>>)),
      SetPartyField("seller", "global_ids", <<<<"4000001123452", None>>>>),
      AddToLineItem("allowances",
          [LineAllowanceOrCharge("LineAllowance", Euro(100, -2), None, None)
             EXCEPT !.reason_code = Some(Member("SpecialServiceCode", "MC"))]),
      AddToLineItem("charges",
          [LineAllowanceOrCharge("LineCharge", Euro(100, -2), None, None)
             EXCEPT !.reason_code = Some(Member("AllowanceChargeCode", "41"))])>>

ArgEdits ==
    <<SetClass("MinimumInvoice"), SetClass("BasicWLInvoice"),
      SetClass("BasicInvoice"), SetClass("EN16931Invoice"),
      SetPartyField("seller", "email", Some("info@example.com")),
      SetPartyField("seller", "ids", <<"549910">>),
      SetPartyField("buyer", "trading_business_name", Some("Kunden")),
      AddToLineItem("allowances",
          LineAllowanceOrCharge("LineAllowance", Euro(100, -2), None, None)),
      AddToLineItem("allowances",
          LineAllowanceOrCharge("LineAllowance", Euro(100, -2),
                                Some(Dec(10, 0)), None)),
      AddToLineItem("allowances",
          LineAllowanceOrCharge("LineAllowance", Euro(100, -2), None,
                                Some(Euro(1000, -2)))),
      AddToLineItem("charges",
          LineAllowanceOrCharge("LineCharge", Euro(100, -2),
                                Some(Dec(10, 0)), None)),
      AddToLineItem("charges",
          LineAllowanceOrCharge("LineCharge", Euro(100, -2), None,
                                Some(Euro(1000, -2))))>>
    \o MoreArgEdits

(***************************************************************************)
(* The inputs of the two value constructors: the codes are the texts of    *)
(* up to MaxCodeLen characters over capital letters, a small letter, a     *)
(* digit and the line feed; the amounts are a decimal and a text that is   *)
(* none.                                                                   *)
(***************************************************************************)
CodeChars == {"A", "Z", "a", "1", "\n"}

Codes == UNION {[1..n -> CodeChars] : n \in 0..MaxCodeLen}

Amounts == {<<"1", ".", "1", "8">>, <<"a", "b", "c">>}

\* The arguments of Money(amount, currency): the amount is a str or a
\* Decimal.
OfStr(text, currency) ==
    [type |-> "str", text |-> text, decimal |-> None, currency |-> currency]

OfDecimal(decimal, currency) ==
    [type |-> "Decimal", text |-> <<>>, decimal |-> Some(decimal),
     currency |-> currency]

NewMoneyOf(a) ==
    IF a.type = "str" THEN Money(a.text, a.currency)
    ELSE Money_of_Decimal(a.decimal[1], a.currency)

USD == <<"U", "S", "D">>

\* "100.00", "100", "200.00", "1E+2" and "NaN" as texts, Decimal("100.00"),
\* Decimal("100") and Decimal("NaN") as Decimals, in EUR and in USD.
MoneyArguments ==
    UNION {{OfStr(<<"1", "0", "0", ".", "0", "0">>, currency),
            OfStr(<<"1", "0", "0">>, currency),
            OfStr(<<"2", "0", "0", ".", "0", "0">>, currency),
            OfStr(<<"1", "E", "+", "2">>, currency),
            OfStr(<<"N", "a", "N">>, currency),
            OfDecimal(Dec(10000, -2), currency),
            OfDecimal(Dec(100, 0), currency),
            OfDecimal(NaN, currency)} : currency \in {EUR, USD}}

(***************************************************************************)
(* The state machine. pc is the step of a client: it builds the arguments  *)
(* of an invoice and constructs it, assigns to a constructed invoice,      *)
(* generates the document of an invoice, receives a document and parses    *)
(* it, constructs a Money or a PostalAddress, or compares two Money. args  *)
(* holds the inputs of a call, doc the document at hand, edits the number  *)
(* of changes made, result the outcome of the last call.                   *)
(***************************************************************************)
Init ==
    /\ pc = "start"
    /\ args = <<>>
    /\ doc = <<>>
    /\ edits = 0
    /\ result = <<>>

TakeSample(c) ==
    /\ pc = "start"
    /\ pc' = "arguments"
    /\ args' = [cls |-> c, kwargs |-> SampleKwargs(c)]
    /\ UNCHANGED <<doc, edits, result>>

EditArgs(e) ==
    /\ pc = "arguments"
    /\ edits < MaxArgEdits
    /\ ApplyArgEdit(args, e) # args
    /\ args' = ApplyArgEdit(args, e)
    /\ edits' = edits + 1
    /\ UNCHANGED <<pc, doc, result>>

Construct ==
    /\ pc = "arguments"
    /\ pc' = "constructed"
    /\ result' = NewInvoice(args.cls, args.kwargs)
    /\ UNCHANGED <<args, doc, edits>>

\* The invoice classes and the classes of their parts are plain dataclasses:
\* the generated __setattr__ is object's and the list fields are lists, so
\* "invoice.seller.email = ...", "invoice.tax_total_amounts.append(...)" and
\* "invoice.line_items = []" store the value and run no __post_init__.
Assignments == <<"seller.email", "tax_total_amounts.append", "line_items">>

setattr(self, a) ==
    CASE a = "seller.email" ->
            [self EXCEPT !.seller.email = Some("verkauf@lieferant.de")]
      [] a = "tax_total_amounts.append" ->
            [self EXCEPT !.tax_total_amounts = Append(@, Euro(0, -2))]
      [] a = "line_items" ->
            IF "line_items" \in DOMAIN self
            THEN [self EXCEPT !.line_items = <<>>]
            ELSE self

Assign(a) ==
    /\ pc = "constructed"
    /\ IsOk(result)
    /\ setattr(result.val[1], a) # result.val[1]
    /\ pc' = "assigned"
    /\ result' = Return(setattr(result.val[1], a))
    /\ UNCHANGED <<args, doc, edits>>

Generate ==
    /\ pc = "constructed"
    /\ IsOk(result)
    /\ pc' = "generated"
    /\ result' = generate(result.val[1])
    /\ UNCHANGED <<args, doc, edits>>

\* parse_xml(generate(invoice)).
RoundTrip ==
    /\ pc = "constructed"
    /\ IsOk(result)
    /\ pc' = "round trip"
    /\ result' = Bind(generate(result.val[1]), LAMBDA xml : parse_xml(xml))
    /\ UNCHANGED <<args, doc, edits>>

Receive(c) ==
    /\ pc = "start"
    /\ pc' = "document"
    /\ doc' = SampleDocument(c)
    /\ UNCHANGED <<args, edits, result>>

EditDoc(e) ==
    /\ pc = "document"
    /\ edits < MaxDocEdits
    /\ ApplyEdit(doc, e) # doc
    /\ doc' = ApplyEdit(doc, e)
    /\ edits' = edits + 1
    /\ UNCHANGED <<pc, args, result>>

Parse ==
    /\ pc = "document"
    /\ pc' = "parsed"
    /\ result' = parse_xml(doc)
    /\ UNCHANGED <<args, doc, edits>>

NewMoney(amount, currency) ==
    /\ pc = "start"
    /\ pc' = "money"
    /\ args' = [amount |-> amount, currency |-> currency]
    /\ result' = Money(amount, currency)
    /\ UNCHANGED <<doc, edits>>

\* Money(x) == Money(y) for two Money objects, or x == x when same.
CompareMoney(x, y, same) ==
    /\ pc = "start"
    /\ same => x = y
    /\ IsOk(NewMoneyOf(x))
    /\ IsOk(NewMoneyOf(y))
    /\ pc' = "compared"
    /\ args' = [x |-> x, y |-> y, same |-> same]
    /\ result' = Return(Money__eq__(NewMoneyOf(x).val[1],
                                    NewMoneyOf(y).val[1], same))
    /\ UNCHANGED <<doc, edits>>

NewPostalAddress(country_code) ==
    /\ pc = "start"
    /\ pc' = "address"
    /\ args' = [country_code |-> country_code]
    /\ result' = PostalAddress(PostalAddressFields(country_code))
    /\ UNCHANGED <<doc, edits>>

Next ==
    \/ \E c \in InvoiceClasses : TakeSample(c)
    \/ \E i \in 1..Len(ArgEdits) : EditArgs(ArgEdits[i])
    \/ Construct
    \/ \E i \in 1..Len(Assignments) : Assign(Assignments[i])
    \/ Generate
    \/ RoundTrip
    \/ \E c \in InvoiceClasses : Receive(c)
    \/ \E i \in 1..Len(DocEdits) : EditDoc(DocEdits[i])
    \/ Parse
    \/ \E amount \in Amounts, currency \in Codes : NewMoney(amount, currency)
    \/ \E x \in MoneyArguments, y \in MoneyArguments, same \in BOOLEAN :
          CompareMoney(x, y, same)
    \/ \E country_code \in Codes : NewPostalAddress(country_code)

Spec == Init /\ [][Next]_vars

(***************************************************************************)
(* TradeParty.validate on its own: a second state machine over the same    *)
(* variables, in which a client builds a party and validates it for a      *)
(* profile and a role. The parties are all combinations of each field set  *)
(* or not set, of no address, an address with the country alone and one    *)
(* with a city, and of up to MaxIds IDs and global IDs with the scheme of   *)
(* the last global ID given or missing, with at most MaxPartyFields fields *)
(* given.                                                                  *)
(***************************************************************************)
Texts(text) == {None, Some(text)}

IdLists == {[i \in 1..n |-> "549910"] : n \in 0..MaxIds}

GlobalIdLists ==
    {[i \in 1..n |-> <<"4000001123452",
                       IF scheme \/ i < n THEN Some("0088") ELSE None>>] :
        n \in 0..MaxIds, scheme \in BOOLEAN}

Parties ==
    [name : Texts("Lieferant GmbH"),
     address : {None, Some(PostalAddressFields(DE)),
                Some([PostalAddressFields(DE) EXCEPT !.city = Some("Berlin")])},
     email : Texts("info@lieferant.de"),
     tax_number : Texts("201/113/40209"),
     vat_id : Texts("DE123456789"),
     ids : IdLists,
     global_ids : GlobalIdLists,
     description : Texts("Lieferant"),
     legal_id : {None, Some(<<"HRB 1", None>>)},
     trading_business_name : Texts("Lieferant"),
     contacts : {<<>>, <<[person_name |-> Some("Max Mustermann"),
                           department_name |-> None, phone |-> None,
                           email |-> None]>>}]

Validate(party, profile, which) ==
    /\ pc = "start"
    /\ pc' = "validated"
    /\ args' = [party |-> party, profile |-> profile, which |-> which]
    /\ result' = TradeParty_validate(party, profile, which)
    /\ UNCHANGED <<doc, edits>>

\* How many fields of a party are given: not None and not empty.
GivenFields(party) ==
    Cardinality({f \in DOMAIN party : party[f] # <<>>})

PartyNext ==
    /\ pc = "start"
    /\ \E party \in {p \in Parties : GivenFields(p) <= MaxPartyFields},
          profile \in InvoiceClasses, which \in Roles :
          Validate(party, profile, which)

PartySpec == Init /\ [][PartyNext]_vars

(***************************************************************************)
(* What the properties below read off a state.                             *)
(***************************************************************************)
\* The invoice the arguments at hand construct.
Original == NewInvoice(args.cls, args.kwargs)

\* The document at hand passes the three early checks of parse_xml.
Dispatched ==
    /\ doc.well_formed
    /\ doc.root.tag = "rsm:CrossIndustryInvoice"
    /\ find(doc.root, ProfileIdPath) # None

\* The text of the profile ID element of a dispatched document.
DeclaredText == find(doc.root, ProfileIdPath)[1].text

Declares(urn) == Dispatched /\ DeclaredText = Some(urn)

ModeledURNs ==
    {URN_MINIMUM_PROFILE, URN_BASIC_WL_PROFILE, URN_BASIC_PROFILE,
     URN_EN16931_PROFILE}

\* The class whose PROFILE_URN is urn, and the extractor of that tier.
ClassOf(urn) == CHOOSE c \in InvoiceClasses : PROFILE_URN(c) = urn

Extractor(urn, tree) ==
    CASE urn = URN_MINIMUM_PROFILE -> _parse_minimum_invoice(tree)
      [] urn = URN_BASIC_WL_PROFILE -> _parse_basic_wl_invoice(tree)
      [] urn = URN_BASIC_PROFILE -> _parse_basic_invoice(tree)
      [] urn = URN_EN16931_PROFILE -> _parse_en16931_invoice(tree)

TaxRepresentativeTag == "ram:SellerTaxRepresentativeTradeParty"

LineItemPath == TransactionPath \o <<"ram:IncludedSupplyChainTradeLineItem">>

\* The document at hand holds a tax representative that reads as a trade
\* party, and parses to an invoice once that element is taken out.
ValidButForTaxRepresentative ==
    /\ Declares(URN_MINIMUM_PROFILE)
    /\ find(doc.root, AgreementPath \o <<TaxRepresentativeTag>>) # None
    /\ IsOk(_parse_trade_party_optional(find(doc.root, AgreementPath)[1],
                                        <<TaxRepresentativeTag>>))
    /\ IsOk(parse_xml(ApplyEdit(doc,
                RemoveChildren(AgreementPath, TaxRepresentativeTag))))

\* Exactly three capital letters A-Z, exactly two.
Capitals(s, n) == Len(s) = n /\ \A i \in 1..n : s[i] \in UpperLetters

\* The MINIMUM arguments at hand with one field of a party put back to its
\* default construct an invoice.
ValidButFor(role, field, default) ==
    /\ args.cls = "MinimumInvoice"
    /\ IsOk(NewInvoice("MinimumInvoice",
                       [args.kwargs EXCEPT ![role][field] = default]))

\* An allowance or charge with a percent or a basis amount.
Gated(ac) == ac.percent # None \/ ac.basis_amount # None

HasGated(li) ==
    \/ \E i \in 1..Len(li.allowances) : Gated(li.allowances[i])
    \/ \E i \in 1..Len(li.charges) : Gated(li.charges[i])

WithoutGated(li) ==
    [li EXCEPT !.allowances = SelectSeq(@, LAMBDA ac : ~Gated(ac)),
               !.charges = SelectSeq(@, LAMBDA ac : ~Gated(ac))]

\* The arguments at hand carry line items, one of them with a gated
\* allowance or charge, and construct an EN 16931 invoice once the gated
\* allowances and charges are taken out.
GatedOnValidLines ==
    /\ "line_items" \in DOMAIN args.kwargs
    /\ \E i \in 1..Len(args.kwargs.line_items) :
            HasGated(args.kwargs.line_items[i])
    /\ IsOk(NewInvoice("EN16931Invoice",
            [args.kwargs EXCEPT !.line_items =
                [i \in 1..Len(@) |-> WithoutGated(@[i])]]))

SomeEN16931LineItem ==
    \E i \in 1..Len(args.kwargs.line_items) :
        isinstance_EN16931LineItem(args.kwargs.line_items[i])

(***************************************************************************)
(* The properties.                                                         *)
(***************************************************************************)
\* C1: round trip. For every invoice that was constructed, at any of the
\* four tiers, parse_xml(generate(invoice)) returns an invoice equal to the
\* original: the same class and every field equal.
C1_RoundTrip ==
    pc = "round trip" =>
        /\ IsOk(result)
        /\ result.val[1] = Original.val[1]

\* C2: the generator is total. For every invoice that was constructed,
\* generate(invoice) returns a document and raises nothing.
C2_GeneratorTotal ==
    pc = "generated" => IsOk(result)

\* C3: profile dispatch. When the root and the profile ID element are
\* present, the text of the profile ID alone selects what parse_xml does:
\* each of the four modeled URNs has the outcome of the extractor of its own
\* tier, and an invoice that is returned is of the class whose PROFILE_URN is
\* the URN declared; every other text, the EXTENDED URN, the XRECHNUNG URN
\* and no text included, raises UnsupportedProfileError.
C3_ProfileDispatch ==
    pc = "parsed" /\ Dispatched =>
        IF DeclaredText \in {Some(urn) : urn \in ModeledURNs}
        THEN /\ result.exc = Extractor(DeclaredText[1], doc.root).exc
             /\ result.msg = Extractor(DeclaredText[1], doc.root).msg
             /\ IsOk(result) =>
                    /\ result.val[1].cls = ClassOf(DeclaredText[1])
                    /\ PROFILE_URN(result.val[1].cls) = DeclaredText[1]
        ELSE result.exc = "UnsupportedProfileError"

\* A changed document that declares BASIC was parsed to a BasicInvoice.
C3_Witness ==
    /\ pc = "parsed"
    /\ edits > 0
    /\ Declares(URN_BASIC_PROFILE)
    /\ IsOk(result)
    /\ result.val[1].cls = "BasicInvoice"

\* C4: precedence of the early failures. A text that is not well formed
\* raises XMLParseError; otherwise a root other than CrossIndustryInvoice
\* raises NotFacturXError for the root; otherwise a missing profile ID
\* element raises NotFacturXError for the profile ID; whatever else the
\* document holds or lacks.
C4_EarlyFailures ==
    pc = "parsed" =>
        /\ ~doc.well_formed => result.exc = "XMLParseError"
        /\ doc.well_formed /\ doc.root.tag # "rsm:CrossIndustryInvoice" =>
              /\ result.exc = "NotFacturXError"
              /\ result.msg = "Root element is not a Factur-X invoice"
        /\ /\ doc.well_formed
           /\ doc.root.tag = "rsm:CrossIndustryInvoice"
           /\ find(doc.root, ProfileIdPath) = None
           => /\ result.exc = "NotFacturXError"
              /\ result.msg = "Profile ID element not found"

\* A document with a wrong root and without the profile ID was parsed.
C4_Witness ==
    /\ pc = "parsed"
    /\ doc.well_formed
    /\ doc.root.tag # "rsm:CrossIndustryInvoice"
    /\ find(doc.root, ProfileIdPath) = None
    /\ result.exc = "NotFacturXError"

\* C5: parser minimality. A document that declares MINIMUM or BASIC WL and
\* holds a line item, or declares BASIC and holds a description of the
\* seller (an EN 16931 field of a party), makes parse_xml fail.
C5_ParserMinimality ==
    pc = "parsed" =>
        /\ /\ Declares(URN_MINIMUM_PROFILE) \/ Declares(URN_BASIC_WL_PROFILE)
           /\ find(doc.root, LineItemPath) # None
           => IsErr(result)
        /\ /\ Declares(URN_BASIC_PROFILE)
           /\ find(doc.root, SellerPath \o <<"ram:Description">>) # None
           => IsErr(result)

\* C6: a document that declares MINIMUM, holds a tax representative of the
\* seller and is valid but for it raises InvalidProfileError with the
\* profile name "MINIMUM" and a message naming the element.
C6_TaxRepresentativeInMinimum ==
    pc = "parsed" /\ ValidButForTaxRepresentative =>
        /\ result.exc = "InvalidProfileError"
        /\ result.profile_name = "MINIMUM"
        /\ result.msg =
             "SellerTaxRepresentativeTradeParty element is not supported in MINIMUM profile"

\* Such a document was parsed.
C6_Witness ==
    /\ pc = "parsed"
    /\ ValidButForTaxRepresentative
    /\ result.exc = "InvalidProfileError"

\* C7: closed error taxonomy. parse_xml returns an invoice or raises one of
\* the FacturXParseError classes or ModelError, and nothing else.
C7_ClosedTaxonomy ==
    pc = "parsed" =>
        \/ IsOk(result)
        \/ result.exc \in FacturXParseErrors \cup {"ModelError"}

\* C8: code formats at construction. Money with a currency that is not
\* exactly three capital letters raises ModelError, PostalAddress with a
\* country that is not exactly two capital letters raises ModelError, and a
\* code of the right form is not refused for its form.
C8_CodeFormats ==
    /\ pc = "money" =>
          IF Capitals(args.currency, 3)
          THEN result.exc \notin {"ModelError", "ValueError"}
          ELSE result.exc = "ModelError"
    /\ pc = "address" =>
          IF Capitals(args.country_code, 2)
          THEN IsOk(result)
          ELSE result.exc = "ModelError"

\* C9: a MINIMUM invoice with an email of the seller, with an id of the
\* seller or with a trading business name of the buyer, and valid but for
\* that one field, fails construction with ModelError.
C9_MinimumParties ==
    pc = "constructed" /\ args.cls = "MinimumInvoice" =>
        /\ /\ args.kwargs.seller.email # None
           /\ ValidButFor("seller", "email", None)
           => result.exc = "ModelError"
        /\ /\ args.kwargs.seller.ids # <<>>
           /\ ValidButFor("seller", "ids", <<>>)
           => result.exc = "ModelError"
        /\ /\ args.kwargs.buyer.trading_business_name # None
           /\ ValidButFor("buyer", "trading_business_name", None)
           => result.exc = "ModelError"

\* A MINIMUM invoice with an email of the seller, valid but for it, was
\* refused.
C9_Witness ==
    /\ pc = "constructed"
    /\ args.cls = "MinimumInvoice"
    /\ args.kwargs.seller.email # None
    /\ ValidButFor("seller", "email", None)
    /\ result.exc = "ModelError"

EmbeddedParties ==
    <<<<"seller", "seller">>, <<"buyer", "buyer">>, <<"payee", "payee">>,
      <<"seller_tax_representative", "seller tax representative">>,
      <<"ship_to", "ship to">>>>

\* The party given for the i-th embedded role, None when there is none.
GivenParty(i) ==
    LET field == EmbeddedParties[i][1]
    IN  IF field \notin DOMAIN args.kwargs THEN None
        ELSE IF i <= 2 THEN Some(args.kwargs[field])
        ELSE args.kwargs[field]

\* C11: construction validates every embedded party at every tier. When the
\* seller, the buyer or, from BASIC WL on, the payee, the seller tax
\* representative or the ship-to party violates the rules of the invoice's
\* tier, the constructor raises ModelError. Calls that end in a TypeError
\* (a missing or unknown argument, a line item of the wrong class) are left
\* aside.
C11_EveryPartyValidated ==
    pc = "constructed" /\ result.exc # "TypeError" =>
        \A i \in 1..Len(EmbeddedParties) :
            /\ GivenParty(i) # None
            /\ i > 2 => args.cls # "MinimumInvoice"
            /\ IsErr(TradeParty_validate(GivenParty(i)[1], args.cls,
                                         EmbeddedParties[i][2]))
            => result.exc = "ModelError"

\* The field values the constructor stores: the arguments over the defaults.
Stored == Merge(InvoiceDefaults(args.cls), args.kwargs)

\* A constructor call that got as far as __post_init__ or returned.
Called == pc = "constructed" /\ result.exc # "TypeError"

\* C12: minimum cardinalities. A constructed invoice of tier BASIC WL, BASIC
\* or EN 16931 has at least one tax entry and one of tier BASIC or EN 16931
\* at least one line item; an empty tax list (from BASIC WL on) or an empty
\* line item list (from BASIC on) fails construction with ModelError.
C12_MinimumCardinalities ==
    Called =>
        /\ issubclass(args.cls, "BasicWLInvoice") =>
              /\ IsOk(result) => Len(result.val[1].tax) >= 1
              /\ Stored.tax = <<>> => result.exc = "ModelError"
        /\ issubclass(args.cls, "BasicInvoice") =>
              /\ IsOk(result) => Len(result.val[1].line_items) >= 1
              /\ Stored.line_items = <<>> => result.exc = "ModelError"

\* The most entries of tax_total_amounts a tier allows.
TaxTotalCap(c) == IF c = "MinimumInvoice" THEN 1 ELSE 2

\* C13: tax-total cap. A constructed MINIMUM invoice has at most one entry
\* in tax_total_amounts and a constructed invoice of another tier at most
\* two; more entries fail construction with ModelError.
C13_TaxTotalCap ==
    Called =>
        /\ IsOk(result) =>
              Len(result.val[1].tax_total_amounts) <= TaxTotalCap(args.cls)
        /\ Len(Stored.tax_total_amounts) > TaxTotalCap(args.cls) =>
              result.exc = "ModelError"

\* A tax entry, a payment means or payment terms with a value the EN 16931
\* tier alone allows.
HasTier3OnlyValue(self) ==
    \/ \E i \in 1..Len(self.tax) : self.tax[i].tax_point_date # None
    \/ \E i \in 1..Len(self.payment_means) :
          LET m == self.payment_means[i]
          IN  \/ m.card # None
              \/ m.payee_account # None /\ m.payee_account[1].name # None
              \/ m.payee_bic # None
              \/ m.information # None
    \/ self.payment_terms # None /\ self.payment_terms[1].description # None

\* The messages of Tax.validate, PaymentMeans.validate, PaymentTerms.validate.
Tier3OnlyMessages ==
    {"Tax point date is not allowed",
     "Payment means information is not allowed",
     "Payment means card information is not allowed",
     "Payment means account name is not allowed",
     "Payment means BIC is not allowed",
     "Payment terms description is not allowed"}

\* C20: tier-3-only fields of tax, payment means and payment terms. A BASIC
\* WL or BASIC invoice with a tax point date, with card data, an account
\* name, a BIC or information on a payment means, or with a description of
\* the payment terms fails construction with ModelError; an EN 16931 invoice
\* is not refused for any of them.
C20_Tier3OnlyFields ==
    Called /\ args.cls # "MinimumInvoice" /\ HasTier3OnlyValue(Stored) =>
        IF args.cls = "EN16931Invoice"
        THEN result.msg \notin Tier3OnlyMessages
        ELSE result.exc = "ModelError"

\* The tier after c in MINIMUM -> BASIC WL -> BASIC -> EN 16931.
NextTier(c) ==
    CASE c = "MinimumInvoice" -> "BasicWLInvoice"
      [] c = "BasicWLInvoice" -> "BasicInvoice"
      [] c = "BasicInvoice" -> "EN16931Invoice"

\* The fields of invoice class c.
FieldsOf(c) == RequiredFields(c) \cup DOMAIN InvoiceDefaults(c)

\* The arguments at hand carried to the next tier: the fields the next tier
\* adds take the values of its sample invoice, the others keep theirs.
CarriedUp ==
    LET next == NextTier(args.cls)
        added == (DOMAIN SampleKwargs(next)) \ FieldsOf(args.cls)
    IN  Merge([f \in added |-> SampleKwargs(next)[f]], args.kwargs)

\* C14: monotonic relaxation across tiers. A party that TradeParty.validate
\* accepts in a role at one tier is accepted in that role at the next tier,
\* and field values the constructor of one tier accepts are accepted by the
\* constructor of the next tier, the fields this one adds being valid.
C14_MonotonicRelaxation ==
    pc = "constructed" /\ args.cls # "EN16931Invoice" =>
        /\ \A i \in 1..Len(EmbeddedParties) :
              /\ GivenParty(i) # None
              /\ IsOk(TradeParty_validate(GivenParty(i)[1], args.cls,
                                          EmbeddedParties[i][2]))
              => IsOk(TradeParty_validate(GivenParty(i)[1],
                                          NextTier(args.cls),
                                          EmbeddedParties[i][2]))
        /\ IsOk(result) => IsOk(NewInvoice(NextTier(args.cls), CarriedUp))

\* C15: validity is irrevocable. After an invoice was constructed, whatever
\* is assigned to its fields or to those of its parties and whatever is
\* appended to its lists, the invoice still passes the validation its
\* constructor ran.
C15_ValidityIrrevocable ==
    pc = "assigned" => IsOk(Invoice__post_init__(result.val[1]))

\* The Money of the arguments compared.
Compared(a) == NewMoneyOf(a).val[1]

\* The number of decimal places of a Decimal.
DecimalPlaces(d) == IF d.exp < 0 THEN 0 - d.exp ELSE 0

\* The Decimal an amount text corresponds to.
Corresponds(text, decimal) ==
    /\ Decimal(text) # None
    /\ is_nan(Decimal(text)[1]) = is_nan(decimal)
    /\ ~is_nan(decimal) =>
          /\ Decimal(text)[1].coeff = decimal.coeff
          /\ Decimal(text)[1].exp = decimal.exp

\* C16: Money equality. Two Money values are equal if and only if they have
\* the same currency, numerically equal amounts and the same number of
\* decimal places; a Money built from a text equals the one built from the
\* corresponding Decimal; a Money equals itself, and the relation is
\* symmetric and transitive.
C16_MoneyEquality ==
    pc = "compared" =>
        LET x == Compared(args.x)
            y == Compared(args.y)
            equal == result.val[1]
        IN  /\ equal <=>
                  /\ x.currency = y.currency
                  /\ Decimal__eq__(x.amount, y.amount)
                  /\ DecimalPlaces(x.amount) = DecimalPlaces(y.amount)
            /\ /\ args.x.type = "str"
               /\ args.y.type = "Decimal"
               /\ Corresponds(args.x.text, args.y.decimal[1])
               /\ args.x.currency = args.y.currency
               => equal
            /\ args.same => equal
            /\ equal = Money__eq__(y, x, args.same)
            /\ \A a \in MoneyArguments :
                  equal /\ Money__eq__(y, Compared(a), FALSE)
                  => Money__eq__(x, Compared(a), FALSE)

(***************************************************************************)
(* The role/tier table of the trade party rules, rule by rule in the order *)
(* validation goes through them. The tier of a profile is the depth of its *)
(* class: 0 is MINIMUM, 1 BASIC WL, 2 BASIC and 3 EN 16931.                *)
(***************************************************************************)
RuleNames ==
    <<"role", "global id scheme", "id cardinality", "name", "description",
      "legal id", "trading business name", "contacts", "address", "email",
      "tax number", "VAT id">>

\* The rule a message of TradeParty.validate or PostalAddress.validate
\* belongs to, as its place in RuleNames.
RuleOf(msg) ==
    CASE msg = "party is not allowed in the profile" -> 1
      [] msg = "Global ID scheme ID is required." -> 2
      [] msg \in {"Multiple IDs are not allowed",
                  "Multiple global IDs are not allowed",
                  "IDs are not allowed", "global IDs are not allowed"} -> 3
      [] msg = "name is required." -> 4
      [] msg = "description is not allowed." -> 5
      [] msg = "legal ID is not allowed" -> 6
      [] msg = "trading business name is not allowed" -> 7
      [] msg = "contacts are not allowed" -> 8
      [] msg \in {"address is not allowed", "address is required",
                  "Address fields are not allowed in the profile."} -> 9
      [] msg = "email is not allowed" -> 10
      [] msg = "tax number is not allowed" -> 11
      [] msg \in {"VAT ID is required", "VAT ID is not allowed"} -> 12
      [] OTHER -> 0

\* The most IDs, and the most global IDs, a party may have in a role at a
\* tier; MaxIds + 1 and more stand for no limit.
IdCap(tier, which) ==
    CASE which = "seller" -> IF tier = 0 THEN 0 ELSE MaxIds + 1
      [] which \in {"buyer", "ship to", "payee"} -> IF tier = 0 THEN 0 ELSE 1
      [] which = "seller tax representative" -> 0

\* An address with one of its six optional fields.
HasAddressFields(address) ==
    \E f \in (DOMAIN address) \ {"country_code"} : address[f] # None

\* The party breaks the k-th rule of the table for the tier and the role.
Broken(k, party, tier, which) ==
    LET seller_or_buyer_above_minimum ==
            which = "seller" \/ (which = "buyer" /\ tier >= 1)
    IN  CASE k = 1 ->
                which \in {"seller tax representative", "ship to", "payee"}
                /\ tier = 0
          [] k = 2 ->
                \E i \in 1..Len(party.global_ids) :
                    party.global_ids[i][2] = None
          [] k = 3 ->
                \/ Len(party.ids) > IdCap(tier, which)
                \/ Len(party.global_ids) > IdCap(tier, which)
          [] k = 4 -> which # "ship to" /\ party.name = None
          [] k = 5 ->
                party.description # None /\ ~(which = "seller" /\ tier = 3)
          [] k = 6 ->
                party.legal_id # None
                /\ which \in {"seller tax representative", "ship to"}
          [] k = 7 ->
                party.trading_business_name # None
                /\ ~ \/ which = "buyer" /\ tier = 3
                     \/ which = "seller" /\ tier >= 1
          [] k = 8 ->
                party.contacts # <<>>
                /\ ~(which \in {"seller", "buyer"} /\ tier = 3)
          [] k = 9 ->
                \/ which = "payee" /\ party.address # None
                \/ which \in {"seller", "seller tax representative"}
                   /\ party.address = None
                \/ which = "buyer" /\ tier >= 1 /\ party.address = None
                \/ /\ party.address # None
                   /\ tier = 0
                   /\ HasAddressFields(party.address[1])
          [] k = 10 -> party.email # None /\ tier = 0
          [] k = 11 ->
                party.tax_number # None /\ ~seller_or_buyer_above_minimum
          [] k = 12 ->
                IF which = "seller tax representative"
                THEN party.vat_id = None
                ELSE party.vat_id # None /\ ~seller_or_buyer_above_minimum

\* The rules the validated party breaks.
BrokenRules ==
    {k \in 1..Len(RuleNames) :
        Broken(k, args.party, ClassDepth(args.profile), args.which)}

\* C17: fail-fast order of TradeParty.validate. The outcome is one
\* ModelError, that of the earliest rule the party breaks in the order
\* role, global ID scheme, ID cardinality, name, description, legal ID,
\* trading business name, contacts, address (with the fields of the
\* address), email, tax number, VAT ID; a party that breaks none passes.
C17_FailFastOrder ==
    pc = "validated" =>
        IF BrokenRules = {} THEN IsOk(result)
        ELSE /\ result.exc = "ModelError"
             /\ RuleOf(result.msg) \in BrokenRules
             /\ \A k \in BrokenRules : RuleOf(result.msg) <= k

\* A party without name and without the required address, with an email
\* not allowed at its tier, was refused for its name.
C17_Witness ==
    /\ pc = "validated"
    /\ {4, 9, 10} \subseteq BrokenRules
    /\ \A k \in BrokenRules : k >= 4
    /\ result.exc = "ModelError"
    /\ result.msg = "name is required."

\* The validated party is refused.
Rejected == result.exc = "ModelError"

\* The validated party is accepted as far as rule k goes: it is not refused
\* for rule k, and it passes when it breaks no other rule.
AcceptedFor(k) ==
    /\ RuleOf(result.msg) # k
    /\ BrokenRules \subseteq {k} => IsOk(result)

\* C18: the address rule. A payee with an address is refused at every
\* tier, a seller or seller tax representative without address at every
\* tier, a buyer without address from BASIC WL up; a buyer without address
\* at MINIMUM and a ship-to party with or without address are accepted;
\* an address at MINIMUM with one of its six optional fields is refused.
C18_AddressRule ==
    pc = "validated" =>
        LET party == args.party
            which == args.which
            tier == ClassDepth(args.profile)
        IN  /\ which = "payee" /\ party.address # None => Rejected
            /\ which \in {"seller", "seller tax representative"}
               /\ party.address = None => Rejected
            /\ which = "buyer" /\ tier >= 1 /\ party.address = None
               => Rejected
            /\ which = "buyer" /\ tier = 0 /\ party.address = None
               => AcceptedFor(9)
            /\ /\ which = "ship to"
               /\ party.address # None =>
                     tier >= 1 \/ ~HasAddressFields(party.address[1])
               => AcceptedFor(9)
            /\ /\ party.address # None
               /\ tier = 0
               /\ HasAddressFields(party.address[1])
               => Rejected

\* A buyer without address passed at MINIMUM.
C18_Witness ==
    /\ pc = "validated"
    /\ args.which = "buyer"
    /\ args.profile = "MinimumInvoice"
    /\ args.party.address = None
    /\ IsOk(result)

\* C19: the identifier cardinality rule. From BASIC WL up a buyer, ship-to
\* party or payee is accepted with at most one ID and at most one global ID
\* and refused with more; a seller or buyer at MINIMUM and a seller tax
\* representative at every tier are refused with any ID or global ID; a
\* seller from BASIC WL up is accepted with any number of them.
C19_IdentifierCardinality ==
    pc = "validated" =>
        LET party == args.party
            which == args.which
            tier == ClassDepth(args.profile)
            most == IF Len(party.ids) > Len(party.global_ids)
                    THEN Len(party.ids) ELSE Len(party.global_ids)
        IN  /\ which \in {"buyer", "ship to", "payee"} /\ tier >= 1 =>
                  IF most <= 1 THEN AcceptedFor(3) ELSE Rejected
            /\ /\ \/ which \in {"seller", "buyer"} /\ tier = 0
                  \/ which = "seller tax representative"
               /\ most > 0
               => Rejected
            /\ which = "seller" /\ tier >= 1 => AcceptedFor(3)

\* A seller with MaxIds IDs and as many global IDs passed at BASIC WL.
C19_Witness ==
    /\ pc = "validated"
    /\ args.which = "seller"
    /\ args.profile = "BasicWLInvoice"
    /\ Len(args.party.ids) = MaxIds
    /\ Len(args.party.global_ids) = MaxIds
    /\ IsOk(result)

\* An allowance or charge computed from a percentage or from a basis amount.
Computed(entry) == entry.percent # None \/ entry.basis_amount # None

\* The messages of LineAllowance.validate and LineCharge.validate, which
\* DocumentAllowance and DocumentCharge inherit.
ComputedMessages ==
    {"Percentage-based allowances are not allowed",
     "Basis amount-based allowances are not allowed",
     "Percentage-based charges are not allowed",
     "Basis amount-based charges are not allowed"}

\* C21: document-level allowance/charge gating. A BASIC WL or BASIC invoice
\* with a document-level allowance or charge that has a percent or a basis
\* amount fails construction with ModelError; an EN 16931 invoice is not
\* refused for it.
C21_DocumentAllowanceGating ==
    /\ Called
    /\ args.cls # "MinimumInvoice"
    /\ \/ \E i \in 1..Len(Stored.allowances) : Computed(Stored.allowances[i])
       \/ \E i \in 1..Len(Stored.charges) : Computed(Stored.charges[i])
    => IF args.cls = "EN16931Invoice"
       THEN result.msg \notin ComputedMessages
       ELSE result.exc = "ModelError"


Reversed(period) == period # None /\ period[1][1] > period[1][2]

PeriodsOf(invoice) ==
    (IF "billing_period" \in DOMAIN invoice THEN {invoice.billing_period} ELSE {})
    \cup (IF "line_items" \in DOMAIN invoice
          THEN {invoice.line_items[i].billing_period :
                  i \in {j \in 1..Len(invoice.line_items) :
                           "billing_period" \in DOMAIN invoice.line_items[j]}}
          ELSE {})

\* C22: billing-period order. A constructor called with a document-level
\* billing period whose start is after its end raises ModelError, and no
\* invoice returned by parse_xml holds a billing period, of the document or
\* of a line item, whose start is after its end.
C22_BillingPeriodOrder ==
    /\ Called /\ "billing_period" \in DOMAIN Stored /\ Reversed(Stored.billing_period)
       => result.exc = "ModelError"
    /\ pc = "parsed" /\ IsOk(result)
       => \A period \in PeriodsOf(result.val[1]) : ~Reversed(period)

\* The parties an invoice holds in the embedded roles.
PartiesOf(invoice) ==
    {invoice[EmbeddedParties[i][1]] :
       i \in {j \in 1..2 : EmbeddedParties[j][1] \in DOMAIN invoice}}
    \cup {invoice[EmbeddedParties[i][1]][1] :
            i \in {j \in 3..Len(EmbeddedParties) :
                     /\ EmbeddedParties[j][1] \in DOMAIN invoice
                     /\ invoice[EmbeddedParties[j][1]] # None}}

\* The global identifiers of an invoice: those of its parties and those of
\* its line items.
GlobalIdsOf(invoice) ==
    UNION {{party.global_ids[i] : i \in 1..Len(party.global_ids)} :
             party \in PartiesOf(invoice)}
    \cup (IF "line_items" \in DOMAIN invoice
          THEN {invoice.line_items[i].global_id[1] :
                  i \in {j \in 1..Len(invoice.line_items) :
                           invoice.line_items[j].global_id # None}}
          ELSE {})

\* C23: global identifiers always carry a scheme. Every global identifier of
\* an invoice returned by a constructor or by parse_xml, of a party in any
\* role or of a line item, has a scheme code that is not None.
C23_GlobalIdScheme ==
    pc \in {"constructed", "parsed"} /\ IsOk(result)
    => \A id \in GlobalIdsOf(result.val[1]) : id[2] # None

\* The classes of the allowances and of the charges of each line item.
AllowanceChargeClasses(line_items) ==
    [i \in 1..Len(line_items) |->
        <<[j \in 1..Len(line_items[i].allowances) |->
              line_items[i].allowances[j].cls],
          [j \in 1..Len(line_items[i].charges) |->
              line_items[i].charges[j].cls]>>]

\* C24: allowance/charge indicator polarity. When an invoice with an
\* allowance or a charge on a line item is generated and the document is
\* parsed, parse_xml returns an invoice in which every allowance is an
\* allowance again and every charge a charge.
C24_IndicatorPolarity ==
    /\ pc = "round trip"
    /\ "line_items" \in DOMAIN args.kwargs
    /\ \E i \in 1..Len(args.kwargs.line_items) :
          Len(args.kwargs.line_items[i].allowances)
            + Len(args.kwargs.line_items[i].charges) > 0
    => /\ IsOk(result)
       /\ AllowanceChargeClasses(result.val[1].line_items)
            = AllowanceChargeClasses(args.kwargs.line_items)

\* The currency an amount element stands for in the document: that of its
\* currencyID attribute, else the text of InvoiceCurrencyCode.
CurrencyOf(el) ==
    IF attrib_get(el, "currencyID") # None
    THEN Chars(attrib_get(el, "currencyID")[1])
    ELSE Chars(find(doc.root, SettlementPath \o <<"ram:InvoiceCurrencyCode">>)[1]
                 .text[1])

\* The amounts of an invoice that parse_xml read from single elements, each
\* with its element: header summation, tax entries, line prices and totals.
AmountsRead(invoice) ==
    LET settlement == find(doc.root, SettlementPath)[1]
        summation == find(doc.root, SummationPath)[1]
        taxes == findall(settlement, <<"ram:ApplicableTradeTax">>)
        lines == findall(doc.root,
                         TransactionPath \o <<"ram:IncludedSupplyChainTradeLineItem">>)
    IN  {<<invoice.tax_basis_total_amount,
           find(summation, <<"ram:TaxBasisTotalAmount">>)[1]>>,
         <<invoice.grand_total_amount,
           find(summation, <<"ram:GrandTotalAmount">>)[1]>>,
         <<invoice.due_payable_amount,
           find(summation, <<"ram:DuePayableAmount">>)[1]>>}
        \cup {<<invoice.tax_total_amounts[i],
                findall(summation, <<"ram:TaxTotalAmount">>)[i]>> :
                 i \in 1..Len(invoice.tax_total_amounts)}
        \cup (IF "tax" \in DOMAIN invoice
              THEN {<<invoice.tax[i].calculated_amount,
                      find(taxes[i], <<"ram:CalculatedAmount">>)[1]>> :
                       i \in 1..Len(invoice.tax)}
                   \cup {<<invoice.tax[i].basis_amount,
                           find(taxes[i], <<"ram:BasisAmount">>)[1]>> :
                            i \in 1..Len(invoice.tax)}
              ELSE {})
        \cup (IF "line_items" \in DOMAIN invoice
              THEN {<<invoice.line_items[i].net_price,
                      find(lines[i], <<"ram:SpecifiedLineTradeAgreement",
                                       "ram:NetPriceProductTradePrice",
                                       "ram:ChargeAmount">>)[1]>> :
                       i \in 1..Len(invoice.line_items)}
                   \cup {<<invoice.line_items[i].billed_total,
                           find(lines[i],
                                <<"ram:SpecifiedLineTradeSettlement",
                                  "ram:SpecifiedTradeSettlementLineMonetarySummation",
                                  "ram:LineTotalAmount">>)[1]>> :
                            i \in 1..Len(invoice.line_items)}
              ELSE {})

AllowancesAndCharges(invoice) ==
    LET own == IF "allowances" \in DOMAIN invoice
               THEN invoice.allowances \o invoice.charges ELSE <<>>
        lines == IF "line_items" \in DOMAIN invoice THEN invoice.line_items
                 ELSE <<>>
    IN  {own[i] : i \in 1..Len(own)}
        \cup UNION {{lines[i].allowances[j] : j \in 1..Len(lines[i].allowances)}
                      \cup {lines[i].charges[j] : j \in 1..Len(lines[i].charges)} :
                    i \in 1..Len(lines)}

\* C26: disjoint reason-code sets. In every invoice returned by a
\* constructor or by parse_xml the reason code of an allowance is None or a
\* member of AllowanceChargeCode and the reason code of a charge is None or
\* a member of SpecialServiceCode.
C26_ReasonCodeSets ==
    pc \in {"constructed", "parsed"} /\ IsOk(result)
    => \A entry \in AllowancesAndCharges(result.val[1]) :
          \/ entry.reason_code = None
          \/ IF entry.cls \in {"LineCharge", "DocumentCharge"}
             THEN entry.reason_code[1][1] = "SpecialServiceCode"
             ELSE entry.reason_code[1][1] = "AllowanceChargeCode"

\* C27: profile-violation errors name the declared tier. When parse_xml
\* raises InvalidProfileError for a document that declares one of the four
\* profiles, the error's profile_name is the PROFILE_NAME of the class of
\* the declared profile, errors raised while the line items are read
\* included.
C27_ProfileErrorNamesTier ==
    /\ pc = "parsed"
    /\ result.exc = "InvalidProfileError"
    /\ Dispatched
    /\ DeclaredText \in {Some(urn) : urn \in ModeledURNs}
    => result.profile_name = PROFILE_NAME(ClassOf(DeclaredText[1]))

\* The document at hand declares MINIMUM and holds an element that MINIMUM
\* forbids: a seller tax representative or an included note.
ForbiddenInMinimum ==
    /\ Declares(URN_MINIMUM_PROFILE)
    /\ \/ find(doc.root, AgreementPath \o <<TaxRepresentativeTag>>) # None
       \/ find(doc.root, DocumentPath \o <<"ram:IncludedNote">>) # None

\* C28: profile rejection precedes model validation. parse_xml of a
\* MINIMUM document with a seller tax representative or a note raises
\* InvalidProfileError, or the error of an element it cannot read
\* (InvalidXMLError, decimal.InvalidOperation), and never ModelError, also
\* when a country code or the type code in the document breaks a rule of
\* the model.
C28_ProfileBeforeModel ==
    pc = "parsed" /\ ForbiddenInMinimum
    => result.exc \in {"InvalidProfileError", "InvalidXMLError", "InvalidOperation"}

(***************************************************************************)
(* pdf_extract.py and pdf_parse.py: a third state machine over the same    *)
(* variables, the call parse_pdf(filename, country=country) statement by   *)
(* statement. A PDF file is unreadable, or readable without a name list of *)
(* embedded files, or readable with a list of up to MaxFiles embedded      *)
(* files, of which the first is any file and the others differ in name.    *)
(* The list pypdf returns is flat, name, file, name, file; here it is the  *)
(* list of the pairs, so doc[0] is doc[1][1] and doc[1] is doc[1][2]. The  *)
(* data of an embedded file is the text of one of the sample documents,    *)
(* named by its class.                                                     *)
(***************************************************************************)
FACTURX_FILENAME == "factur-x.xml"

XRECHNUNG_FILENAME == "xrechnung.xml"

DATA == <<"D", "a", "t", "a">>

SOURCE == <<"S", "o", "u", "r", "c", "e">>

ALTERNATIVE == <<"A", "l", "t", "e", "r", "n", "a", "t", "i", "v", "e">>

SUPPLEMENT == <<"S", "u", "p", "p", "l", "e", "m", "e", "n", "t">>

\* The values of the enumeration FileRelationship.
FileRelationship == {DATA, SOURCE, ALTERNATIVE, SUPPLEMENT}

\* The values of /AFRelationship in a file specification: no entry, the four
\* PDF names and a text that is no name.
AFRelationships ==
    {None} \cup {Some(<<"/">> \o r) : r \in FileRelationship} \cup {Some(DATA)}

EmbeddedFiles ==
    [AFRelationship : AFRelationships,
     Subtype : {"/text/xml", "/application/pdf"},
     data : InvoiceClasses]

FileNames == {FACTURX_FILENAME, XRECHNUNG_FILENAME}

PlainFile == [AFRelationship |-> None, Subtype |-> "/text/xml",
              data |-> "MinimumInvoice"]

\* The name lists: empty, or any first entry followed by entries of which
\* the names vary; the function reads the first entry alone.
NameLists ==
    {<<>>}
    \cup {<<first>> \o rest :
            first \in FileNames \X EmbeddedFiles,
            rest \in UNION {[1..n -> FileNames \X {PlainFile}] :
                              n \in 0..(MaxFiles - 1)}}

PdfFiles ==
    {[readable |-> FALSE, names |-> None], [readable |-> TRUE, names |-> None]}
    \cup {[readable |-> TRUE, names |-> Some(l)] : l \in NameLists}

Countries == {None, Some("fr"), Some("de"), Some("FR"), Some("DE")}

NoFacturXError == Raise("NoFacturXError", "No Factur-X invoice found in PDF file")

\* The statements of extract_facturx_from_pdf after the loop, on the list
\* the loop left: IndexError, KeyError and ValueError become NoFacturXError.
\* The result is the pair of the text and the relationship.
ReadEmbeddedFile(names) ==
    LET obj == names[1][2]
        rel_s == obj.AFRelationship
        relationship == IF rel_s = None THEN None
                        ELSE Some(SubSeq(rel_s[1], 2, Len(rel_s[1])))
    IN  IF names = <<>> THEN NoFacturXError
        ELSE IF relationship # None /\ relationship[1] \notin FileRelationship
        THEN NoFacturXError
        ELSE IF obj.Subtype # "/text/xml" THEN NoFacturXError
        ELSE Return(<<obj.data, relationship>>)

_VALID_RELATIONSHIPS_FRANCE(profile) ==
    CASE profile = URN_MINIMUM_PROFILE -> {DATA}
      [] profile = URN_BASIC_WL_PROFILE -> {DATA}
      [] profile = URN_BASIC_PROFILE -> {ALTERNATIVE, SOURCE, DATA}
      [] profile = URN_EN16931_PROFILE -> {ALTERNATIVE, SOURCE, DATA}
      [] profile = URN_EXTENDED_PROFILE -> {ALTERNATIVE, SOURCE, DATA}
      [] profile = URN_XRECHNUNG_PROFILE -> {}

_VALID_RELATIONSHIPS_GERMANY(profile) ==
    CASE profile = URN_MINIMUM_PROFILE -> {DATA}
      [] profile = URN_BASIC_WL_PROFILE -> {DATA}
      [] profile = URN_BASIC_PROFILE -> {ALTERNATIVE}
      [] profile = URN_EN16931_PROFILE -> {ALTERNATIVE}
      [] profile = URN_EXTENDED_PROFILE -> {ALTERNATIVE}
      [] profile = URN_XRECHNUNG_PROFILE -> {ALTERNATIVE}

_validate_relationship(profile, relationship, country) ==
    IF relationship = None THEN NoExc
    ELSE IF country = Some("fr")
    THEN (IF relationship[1] \notin _VALID_RELATIONSHIPS_FRANCE(profile)
          THEN Raise("NoFacturXError",
                     "Invalid relationship for Factur-X Minimum invoice")
          ELSE NoExc)
    ELSE IF country = Some("de")
    THEN (IF relationship[1] \notin _VALID_RELATIONSHIPS_GERMANY(profile)
          THEN Raise("NoFacturXError",
                     "Invalid relationship for Factur-X Minimum invoice")
          ELSE NoExc)
    ELSE NoExc

\* parse_pdf after extract_facturx_from_pdf returned (data, relationship).
parse_pdf(data, relationship, country) ==
    Bind(parse_xml(SampleDocument(data)),
      LAMBDA invoice :
        Bind(_validate_relationship(PROFILE_URN(invoice.cls), relationship,
                                    country),
             LAMBDA none : Return(invoice)))

\* parse_pdf(filename, country=country) up to the loop: PdfReader(filename)
\* and the look-up of the name list, a KeyError when the file has none.
OpenPdf(file, country) ==
    /\ pc = "start"
    /\ args' = [file |-> file, country |-> country]
    /\ IF ~file.readable
       THEN /\ pc' = "extracted"
            /\ result' = Raise("PDFParseError", "Cannot read PDF file")
            /\ doc' = doc
       ELSE IF file.names = None
       THEN /\ pc' = "extracted"
            /\ result' = NoFacturXError
            /\ doc' = doc
       ELSE /\ pc' = "while"
            /\ doc' = file.names[1]
            /\ result' = result
    /\ UNCHANGED edits

\* "while doc:".
WhileDoc ==
    /\ pc = "while"
    /\ pc' = IF doc # <<>> THEN "if" ELSE "after while"
    /\ UNCHANGED <<args, doc, edits, result>>

\* "if doc[0] == FACTURX_FILENAME: break", else the next round of the loop.
IfFacturX ==
    /\ pc = "if"
    /\ pc' = IF doc[1][1] = FACTURX_FILENAME THEN "after while" ELSE "while"
    /\ UNCHANGED <<args, doc, edits, result>>

\* The statements from "obj = doc[1]" to the return or the exception.
AfterWhile ==
    /\ pc = "after while"
    /\ pc' = "extracted"
    /\ result' = ReadEmbeddedFile(doc)
    /\ UNCHANGED <<args, doc, edits>>

\* parse_xml(data) and _validate_relationship in parse_pdf.
ParseExtracted ==
    /\ pc = "extracted"
    /\ IsOk(result)
    /\ pc' = "pdf parsed"
    /\ result' = parse_pdf(result.val[1][1], result.val[1][2], args.country)
    /\ UNCHANGED <<args, doc, edits>>

PdfNext ==
    \/ /\ pc = "start"
       /\ \E file \in PdfFiles, country \in Countries : OpenPdf(file, country)
    \/ WhileDoc
    \/ IfFacturX
    \/ AfterWhile
    \/ ParseExtracted

\* The interpreter runs one thread: inside extract_facturx_from_pdf a
\* statement that can run does run.
PdfSpec ==
    /\ Init
    /\ [][PdfNext]_vars
    /\ WF_vars(WhileDoc) /\ WF_vars(IfFacturX) /\ WF_vars(AfterWhile)

\* C29: extract_facturx_from_pdf terminates on every readable PDF. Once the
\* name list of a readable file is at hand, whatever it holds, the function
\* eventually returns the text and the relationship or raises
\* NoFacturXError.
C29_ExtractTerminates ==
    (pc = "while") ~> (pc = "extracted")

\* The list a call of parse_pdf left the loop with gave a text and a
\* relationship, and the text parsed to an invoice.
Extracted == ReadEmbeddedFile(doc).val[1]

\* C30: country-specific relationship check of parse_pdf. When the text
\* parses to an invoice and the file declares a relationship, a call with
\* the ISO 3166-1 alpha-2 code of France or Germany returns the invoice if
\* the relationship is among those valid for the country and the profile
\* and raises NoFacturXError if not; a call without country, or for a file
\* without relationship, returns the invoice.
C30_RelationshipCheck ==
    /\ pc = "pdf parsed"
    /\ IsOk(parse_xml(SampleDocument(Extracted[1])))
    => LET invoice == parse_xml(SampleDocument(Extracted[1])).val[1]
           relationship == Extracted[2]
           valid == IF args.country = Some("FR")
                    THEN _VALID_RELATIONSHIPS_FRANCE(PROFILE_URN(invoice.cls))
                    ELSE _VALID_RELATIONSHIPS_GERMANY(PROFILE_URN(invoice.cls))
       IN  IF /\ args.country \in {Some("FR"), Some("DE")}
              /\ relationship # None
              /\ relationship[1] \notin valid
           THEN result.exc = "NoFacturXError"
           ELSE IF args.country \in {Some("FR"), Some("DE"), None}
                   \/ relationship = None
           THEN IsOk(result) /\ result.val[1] = invoice
           ELSE TRUE

=============================================================================
